---- MODULE Spec2Model ----
(***************************************************************************)
(* Model of the grid layout (GraphBuilder.buildFromElements and            *)
(* GraphBuilder.calculateGridPositions, src/src/metadata-display.js) and   *)
(* of the group boundary meshing (GroupWireframeManager.update,            *)
(* src/unnamed/part_002) of the network-visualization element, and of its  *)
(* selection handling (InteractionHandler, src/src/interaction-handler.js) *)
(* with the offset animation of the scene (SceneManager,                   *)
(* src/unnamed/part_000).                                                  *)
(*                                                                         *)
(* Node ids are 1..n, GhostId is an id no node carries, group ids are      *)
(* 1..MaxGroups.  A grid position is a record [k, x, y]: k = "cell" for a  *)
(* pair of integers, k = "NaN" for the JavaScript NaN pair that arithmetic *)
(* on an undefined coordinate yields, k = "undefined" for a node whose     *)
(* gridX/gridY were never assigned.                                        *)
(***************************************************************************)
EXTENDS Integers, Sequences, FiniteSets, TLC

\* ---------------------------------------------------------------- bounds
MaxNodes == 3
MaxEdges == 2
MaxGroups == 2
MaxBlock == 9
MaxVoxelNodes == 3
MaxSelNodes == 3
MaxSelEdges == 2
MaxMeshNodes == 2
MaxMeshes == 6
MaxAnimNodes == 2
TicksPerAnimation == 2
\* the ring bounds of the five searches (100, 100, 50, 100, 100 in the source)
NearestRingLimit == 2
GroupRingLimit == 5
MemberRingLimit == 5
NeighborRingLimit == 5
OriginRingLimit == 5

\* ------------------------------------------------------ program constants
nodeSpacing == 80
groupSpacing == 3
padding == 20

GhostId == 0
NullGroup == 0
\* el.getAttribute('name') of an element without a name (null, or the empty string)
NoName == 0

VARIABLES
  elNodes,      \* <network-node> ids in document order
  elEdges,      \* <network-edge> records [source, target] in document order
  elGroups,     \* <network-group> records [id, nodeIds] in document order
  nodes,        \* this.nodes: sequence of ids
  nodeGroups,   \* node.groups: id -> sequence of group ids
  links,        \* this.links
  groups,       \* this.groups
  pos,          \* node.gridX / node.gridY: id -> position record
  world,        \* node.x / node.y / node.z: id -> world position record
  via,          \* history: id -> the branch that placed the node
  warnings,     \* number of console.warn calls
  pc,           \* position of the build
  run,          \* number of calculateGridPositions invocations started
  firstResult,  \* pos at the end of the first invocation
  sortedGroups, \* local: sequence of [id, nodes]
  ungroupedNodes, \* local: sequence of ids
  occupiedPositions, \* local: set of position keys
  placedNodes,  \* local: set of ids
  groupBounds,  \* local: group id -> [minX, maxX, minY, maxY]
  gIdx,         \* local: index into sortedGroups
  mIdx,         \* local: index of the next member of the current group
  uIdx,         \* local: index of the next ungrouped node
  groupWireframes, \* GroupWireframeManager: sequence of [mesh, group]
  scene,        \* the meshes the scene holds
  meshCount,    \* number of meshes created so far
  center,       \* group.center: group id -> world point, where assigned
  wIdx,         \* update: index into groupWireframes
  wpc,          \* update: position inside the iteration for one group
  nodeVoxels,   \* update local: voxel of each box, in box order
  voxelMap,     \* update local: keys of the Map in insertion order
  cIdx,         \* update local: index of the connection loop
  edgeSet,      \* update local: keys of the Set in insertion order
  mergedEdges,  \* update local: the segments after the merge, in push order
  nodeName,     \* node.name: node id -> name or NoName
  groupName,    \* group.name: index in this.groups -> name or NoName
  selectedObject, \* InteractionHandler.selectedObject
  isDragging,   \* InteractionHandler.isDragging
  shown,        \* the 'metadata-shown' events the latest handler has fired
  highlighted,  \* the selections whose mesh or wireframe has the highlight colour
  mouseDownPos, \* InteractionHandler.mouseDownPos, in pixels
  pointer,      \* the mouse: "idle", "down" since a press on the canvas, or "strayed"
                \* once a move since that press was reported more than 5 pixels off
  graphPos,     \* SceneManager.graphGroup.position
  offsetAnimation, \* SceneManager.offsetAnimation
  elapsed       \* Date.now() - offsetAnimation.startTime, in clock ticks

layoutVars == <<sortedGroups, ungroupedNodes, occupiedPositions, placedNodes,
                groupBounds, gIdx, mIdx, uIdx>>
domVars == <<elNodes, elEdges, elGroups>>
builderVars == <<nodes, nodeGroups, links, groups>>
meshVars == <<groupWireframes, scene, meshCount, center>>
updateVars == <<wIdx, wpc, nodeVoxels, voxelMap, cIdx, edgeSet, mergedEdges>>
pointerVars == <<mouseDownPos, pointer>>
sceneVars == <<graphPos, offsetAnimation, elapsed>>
uiVars == <<nodeName, groupName, selectedObject, isDragging, shown, highlighted,
            pointerVars, sceneVars>>

vars == <<elNodes, elEdges, elGroups, nodes, nodeGroups, links, groups, pos, world, via,
          warnings, pc, run, firstResult, sortedGroups, ungroupedNodes,
          occupiedPositions, placedNodes, groupBounds, gIdx, mIdx, uIdx,
          groupWireframes, scene, meshCount, center,
          wIdx, wpc, nodeVoxels, voxelMap, cIdx, edgeSet, mergedEdges,
          nodeName, groupName, selectedObject, isDragging, shown, highlighted,
          mouseDownPos, pointer, graphPos, offsetAnimation, elapsed>>

\* ------------------------------------------------------------- selection
\* selectedObject: null, a node object, or the copy of a group made by the click
NoSelection == [kind |-> "none", at |-> 0]
NodeSelection(n) == [kind |-> "node", at |-> n]
GroupSelection(i) == [kind |-> "group", at |-> i]

\* ------------------------------------------------------------- positions
Cell(x, y) == [k |-> "cell", x |-> x, y |-> y]
NaNPos == [k |-> "NaN", x |-> 0, y |-> 0]
Undefined == [k |-> "undefined", x |-> 0, y |-> 0]
NoPos == [k |-> "none", x |-> 0, y |-> 0]

Point(x, y, z) == [k |-> "num", x |-> x, y |-> y, z |-> z]
NaNWorld == [k |-> "NaN", x |-> 0, y |-> 0, z |-> 0]
UndefinedWorld == [k |-> "undefined", x |-> 0, y |-> 0, z |-> 0]

\* node.x = gridX * gridSpacing, node.y = 0, node.z = gridY * gridSpacing
nodeWorld(p, gridSpacing) ==
  IF p.k = "cell" THEN Point(p.x * gridSpacing, 0, p.y * gridSpacing) ELSE NaNWorld

Abs(a) == IF a < 0 THEN -a ELSE a
Min(a, b) == IF a < b THEN a ELSE b
Max(a, b) == IF a > b THEN a ELSE b

\* new THREE.Vector3(0, 0, 0): the position of a new THREE.Group
Origin == Point(0, 0, 0)

\* new THREE.Vector2(x, y) holding clientX and clientY
Pixel(x, y) == [x |-> x, y |-> y]

\* offsetAnimation = null
NoAnimation == [active |-> FALSE, startPos |-> Origin, endPos |-> Origin]

\* the interaction handler and the scene manager as constructed: no pointer
\* event yet, no animation, the graph group at the origin
HandlerIdle ==
  /\ selectedObject = NoSelection
  /\ isDragging = FALSE
  /\ mouseDownPos = Pixel(0, 0)
  /\ pointer = "idle"
  /\ graphPos = Origin
  /\ offsetAnimation = NoAnimation
  /\ elapsed = 0

\* no name is read and nothing is selected: the state before any interaction
UiIdle ==
  /\ nodeName = <<>>
  /\ groupName = <<>>
  /\ shown = <<>>
  /\ highlighted = {}
  /\ HandlerIdle

\* p.gridX + dx, p.gridY + dy: NaN as soon as p is not a pair of numbers
Offset(p, dx, dy) == IF p.k = "cell" THEN Cell(p.x + dx, p.y + dy) ELSE NaNPos

\* the template string `${gridX},${gridY}` is injective on what it is given
getPositionKey(p) == <<p.k, p.x, p.y>>

isPositionAvailable(occ, p) == getPositionKey(p) \notin occ

\* respectsGroupSpacing that takes a null current group for "no group to respect"
respectsGroupSpacing_NullSkips(gb, p, currentGroupId) ==
  \/ currentGroupId = NullGroup
  \/ \A g \in DOMAIN gb :
       \/ g = currentGroupId
       \/ ~ ( /\ p.k = "cell"
              /\ p.x >= gb[g].minX - groupSpacing /\ p.x <= gb[g].maxX + groupSpacing
              /\ p.y >= gb[g].minY - groupSpacing /\ p.y <= gb[g].maxY + groupSpacing )

\* respectsGroupSpacing with the bounds taken as they are, the buffer forgotten
respectsGroupSpacing_NoBuffer(gb, p, currentGroupId) ==
  \A g \in DOMAIN gb :
    \/ g = currentGroupId
    \/ ~ ( /\ p.k = "cell"
           /\ p.x >= gb[g].minX /\ p.x <= gb[g].maxX
           /\ p.y >= gb[g].minY /\ p.y <= gb[g].maxY )

respectsGroupSpacing(gb, p, currentGroupId) ==
  \A g \in DOMAIN gb :
    \/ g = currentGroupId
    \/ ~ ( /\ p.k = "cell"
           /\ p.x >= gb[g].minX - groupSpacing /\ p.x <= gb[g].maxX + groupSpacing
           /\ p.y >= gb[g].minY - groupSpacing /\ p.y <= gb[g].maxY + groupSpacing )

\* updateGroupBounds that grows the bounds towards smaller coordinates only
updateGroupBounds_MinOnly(gb, g, p) ==
  IF g \notin DOMAIN gb
  THEN [h \in DOMAIN gb \cup {g} |->
          IF h = g THEN [minX |-> p.x, maxX |-> p.x, minY |-> p.y, maxY |-> p.y]
          ELSE gb[h]]
  ELSE [gb EXCEPT ![g] = [minX |-> Min(gb[g].minX, p.x), maxX |-> gb[g].maxX,
                          minY |-> Min(gb[g].minY, p.y), maxY |-> gb[g].maxY]]

updateGroupBounds(gb, g, p) ==
  IF g \notin DOMAIN gb
  THEN [h \in DOMAIN gb \cup {g} |->
          IF h = g THEN [minX |-> p.x, maxX |-> p.x, minY |-> p.y, maxY |-> p.y]
          ELSE gb[h]]
  ELSE [gb EXCEPT ![g] = [minX |-> Min(gb[g].minX, p.x), maxX |-> Max(gb[g].maxX, p.x),
                          minY |-> Min(gb[g].minY, p.y), maxY |-> Max(gb[g].maxY, p.y)]]

\* ------------------------------------------------------------ ring scans
\* the cells the three nested loops visit for one radius, and the order of the
\* visit: dx ascending (outer loop), dy ascending (inner loop)
RingOffsets(r) ==
  {d \in (-r..r) \X (-r..r) : Abs(d[1]) = r \/ Abs(d[2]) = r}

ScanRank(d, r) == (d[1] + r) * (2 * r + 1) + (d[2] + r)

Admissible(occ, gb, p, cur, spacing) ==
  /\ isPositionAvailable(occ, p)
  /\ spacing => respectsGroupSpacing(gb, p, cur)

\* a ring scan that keeps the last admissible cell of the ring, not the first
FirstOnRing_LastInScan(occ, gb, c, r, cur, spacing) ==
  LET ok == {d \in RingOffsets(r) : Admissible(occ, gb, Offset(c, d[1], d[2]), cur, spacing)}
  IN IF ok = {} THEN NoPos
     ELSE LET d == CHOOSE e \in ok : \A f \in ok : ScanRank(e, r) >= ScanRank(f, r)
          IN Offset(c, d[1], d[2])

FirstOnRing(occ, gb, c, r, cur, spacing) ==
  LET ok == {d \in RingOffsets(r) : Admissible(occ, gb, Offset(c, d[1], d[2]), cur, spacing)}
  IN IF ok = {} THEN NoPos
     ELSE LET d == CHOOSE e \in ok : \A f \in ok : ScanRank(e, r) <= ScanRank(f, r)
          IN Offset(c, d[1], d[2])

RECURSIVE RingSearch(_, _, _, _, _, _, _)
RingSearch(occ, gb, c, r, limit, cur, spacing) ==
  IF r >= limit THEN NoPos
  ELSE LET f == FirstOnRing(occ, gb, c, r, cur, spacing)
       IN IF f # NoPos THEN f ELSE RingSearch(occ, gb, c, r + 1, limit, cur, spacing)

findNearestAvailablePosition(occ, start) ==
  IF isPositionAvailable(occ, start) THEN start
  ELSE LET f == RingSearch(occ, <<>>, start, 1, NearestRingLimit, NullGroup, FALSE)
       IN IF f # NoPos THEN f ELSE start

\* the eight offsets with left tried before right
offsets_LeftFirst == << <<-1, 0>>, <<1, 0>>, <<0, 1>>, <<0, -1>>,
                        <<1, 1>>, <<-1, 1>>, <<1, -1>>, <<-1, -1>> >>

\* the eight neighbour offsets in the order of the array literal
offsets == << <<1, 0>>, <<-1, 0>>, <<0, 1>>, <<0, -1>>,
              <<1, 1>>, <<-1, 1>>, <<1, -1>>, <<-1, -1>> >>

FirstOffset(occ, gb, anchor, cur) ==
  LET ok == {i \in 1..Len(offsets) :
               Admissible(occ, gb, Offset(anchor, offsets[i][1], offsets[i][2]), cur, TRUE)}
  IN IF ok = {} THEN NoPos
     ELSE LET i == CHOOSE j \in ok : \A h \in ok : j <= h
          IN Offset(anchor, offsets[i][1], offsets[i][2])

\* ------------------------------------------------- degrees and adjacency
RECURSIVE CountEnds(_, _)
CountEnds(ls, n) ==
  IF ls = <<>> THEN 0
  ELSE (IF Head(ls).source = n THEN 1 ELSE 0) + (IF Head(ls).target = n THEN 1 ELSE 0)
       + CountEnds(Tail(ls), n)

\* connectionMap.get(n) once every link has been counted
connectionMap(ls, n) == CountEnds(ls, n)

RECURSIVE adjacencyList(_, _)
adjacencyList(ls, n) ==
  IF ls = <<>> THEN <<>>
  ELSE (IF Head(ls).source = n THEN <<Head(ls).target>> ELSE <<>>)
       \o (IF Head(ls).target = n THEN <<Head(ls).source>> ELSE <<>>)
       \o adjacencyList(Tail(ls), n)

\* Array.prototype.sort with comparator key(b) - key(a): descending and stable
SortDescStable(seq, Key(_)) ==
  LET rank(i) == 1 + Cardinality({j \in 1..Len(seq) :
                       \/ Key(seq[j]) > Key(seq[i])
                       \/ (Key(seq[j]) = Key(seq[i]) /\ j < i)})
  IN [p \in 1..Len(seq) |-> seq[CHOOSE i \in 1..Len(seq) : rank(i) = p]]

RECURSIVE SumSeq(_, _)
SumSeq(seq, ls) ==
  IF seq = <<>> THEN 0 ELSE connectionMap(ls, Head(seq)) + SumSeq(Tail(seq), ls)

\* the keys of groupedNodes in ascending order of the group ids, which is the order
\* of the group list
PrimaryOrder_Declared(ns, ng, seen) ==
  LET ids == {ng[ns[i]][1] : i \in {j \in 1..Len(ns) : Len(ng[ns[j]]) > 0}}
      RECURSIVE Asc(_)
      Asc(S) == IF S = {} THEN <<>>
                ELSE LET m == CHOOSE x \in S : \A y \in S : x <= y
                     IN <<m>> \o Asc(S \ {m})
  IN Asc(ids)

\* the keys of groupedNodes in Map insertion order: a group enters the Map when the
\* first node (in this.nodes order) whose groups[0] it is, is visited
RECURSIVE PrimaryOrder(_, _, _)
PrimaryOrder(ns, ng, seen) ==
  IF ns = <<>> THEN <<>>
  ELSE LET n == Head(ns)
       IN IF Len(ng[n]) > 0 /\ ng[n][1] \notin seen
          THEN <<ng[n][1]>> \o PrimaryOrder(Tail(ns), ng, seen \cup {ng[n][1]})
          ELSE PrimaryOrder(Tail(ns), ng, seen)

\* the nodes the group lists, whether or not it is the first to list them
groupedNodesOf_Listed(ns, ng, g) ==
  LET inG(n) == \E i \in 1..Len(ng[n]) : ng[n][i] = g IN SelectSeq(ns, inG)

groupedNodesOf(ns, ng, g) ==
  LET inG(n) == Len(ng[n]) > 0 /\ ng[n][1] = g IN SelectSeq(ns, inG)

ungroupedOf(ns, ng) ==
  LET free(n) == Len(ng[n]) = 0 IN SelectSeq(ns, free)

\* sortedGroups whose members stay in input order
SortedGroupsOf_MembersInInputOrder(ns, ng, ls) ==
  LET total(g) == SumSeq(groupedNodesOf(ns, ng, g), ls)
      order == SortDescStable(PrimaryOrder(ns, ng, {}), total)
  IN [i \in 1..Len(order) |-> [id |-> order[i], nodes |-> groupedNodesOf(ns, ng, order[i])]]

SortedGroupsOf(ns, ng, ls) ==
  LET deg(n) == connectionMap(ls, n)
      total(g) == SumSeq(groupedNodesOf(ns, ng, g), ls)
      order == SortDescStable(PrimaryOrder(ns, ng, {}), total)
  IN [i \in 1..Len(order) |->
        [id |-> order[i], nodes |-> SortDescStable(groupedNodesOf(ns, ng, order[i]), deg)]]

SortedUngroupedOf(ns, ng, ls) ==
  LET deg(n) == connectionMap(ls, n) IN SortDescStable(ungroupedOf(ns, ng), deg)

\* ------------------------------------------------------------ the inputs
Range(f) == {f[i] : i \in DOMAIN f}

SeqsUpTo(S, m) == UNION {[1..k -> S] : k \in 0..m}

Link(s, t) == [source |-> s, target |-> t]

\* links between two different existing nodes (a link and its reverse give the same
\* degrees and adjacency lists, so one of each pair), and two links with an unknown
\* endpoint
EdgePairs(n) ==
  {l \in {Link(s, t) : s \in 1..n, t \in 1..n} : l.source < l.target}
    \cup (IF n >= 1 THEN {Link(GhostId, 1), Link(1, GhostId)} ELSE {})

\* nodes and links, no group
LinkInputs ==
  UNION {
    {[n |-> n, edges |-> e, groups |-> <<>>] : e \in SeqsUpTo(EdgePairs(n), MaxEdges)}
    : n \in 0..MaxNodes}

\* nodes and groups, no link: the first two groups list any of the nodes, a
\* further group lists none of them or all of them
GroupInputs ==
  UNION {
    {[n |-> n, edges |-> <<>>,
      groups |-> [g \in 1..MaxGroups |-> [id |-> g, nodeIds |-> m[g]]]] :
       m \in {f \in [1..MaxGroups -> SUBSET (1..n)] :
                \A g \in 3..MaxGroups : f[g] \in {{}, 1..n}}}
    : n \in 0..MaxNodes}

\* links and groups together, one node, one link and one group fewer
MixedInputs ==
  UNION {
    {[n |-> n, edges |-> e,
      groups |-> [g \in 1..(MaxGroups - 1) |-> [id |-> g, nodeIds |-> m[g]]]] :
       e \in SeqsUpTo(EdgePairs(n), MaxEdges - 1),
       m \in [1..(MaxGroups - 1) -> SUBSET (1..n)]}
    : n \in 0..(MaxNodes - 1)}

\* one group whose node-ids name an id no node has, next to any of the nodes
StrayInputs ==
  UNION {
    {[n |-> n, edges |-> <<>>,
      groups |-> <<[id |-> 1, nodeIds |-> m \cup {GhostId}]>>] : m \in SUBSET (1..n)}
    : n \in 0..MaxNodes}

GeneralInputs == LinkInputs \cup GroupInputs \cup MixedInputs \cup StrayInputs

\* k nodes listed by group 1, then m nodes listed by group 2 (which may list the
\* first k nodes as well), then u nodes no group lists; no link, or one link
\* between the last node and the first, or between the last two nodes
BlockInputs ==
  UNION {
    {[n |-> k + m + u, edges |-> e,
      groups |-> << [id |-> 1, nodeIds |-> 1..k],
                    [id |-> 2, nodeIds |-> (IF both THEN 1..k ELSE {}) \cup (k + 1)..(k + m)] >>] :
       e \in {<<>>, <<Link(1, k + m + u)>>, <<Link(k + m + u - 1, k + m + u)>>},
       both \in BOOLEAN}
    : k \in 1..MaxBlock, m \in 0..2, u \in 0..2}

\* two groups of one node each (the second may list nothing) and two nodes no group
\* lists, joined by three links that each end at a node no group lists
AnchorInputs ==
  {[n |-> 4, edges |-> e,
    groups |-> << [id |-> 1, nodeIds |-> {1}], [id |-> 2, nodeIds |-> m] >>] :
     e \in [1..3 -> {Link(1, 3), Link(1, 4), Link(2, 3), Link(2, 4), Link(3, 4)}],
     m \in {{}, {2}}}

Inputs == GeneralInputs \cup BlockInputs \cup AnchorInputs

\* ------------------------------------------------------------------ Init
Init ==
  /\ \E in \in Inputs :
       /\ elNodes = [i \in 1..in.n |-> i]
       /\ elEdges = in.edges
       /\ elGroups = in.groups
  /\ nodes = <<>>
  /\ nodeGroups = <<>>
  /\ links = <<>>
  /\ groups = <<>>
  /\ pos = <<>>
  /\ world = <<>>
  /\ via = <<>>
  /\ warnings = 0
  /\ pc = "dom"
  /\ run = 0
  /\ firstResult = <<>>
  /\ sortedGroups = <<>>
  /\ ungroupedNodes = <<>>
  /\ occupiedPositions = {}
  /\ placedNodes = {}
  /\ groupBounds = <<>>
  /\ gIdx = 1
  /\ mIdx = 1
  /\ uIdx = 1
  /\ groupWireframes = <<>>
  /\ scene = {}
  /\ meshCount = 0
  /\ center = <<>>
  /\ wIdx = 1
  /\ wpc = "idle"
  /\ nodeVoxels = <<>>
  /\ voxelMap = <<>>
  /\ cIdx = 1
  /\ edgeSet = <<>>
  /\ mergedEdges = <<>>
  /\ UiIdle

\* a filter that looks at the source of a link only
validLink_SourceOnly(ns, l) == l.source \in Range(ns)

\* ----------------------------------------------------- buildFromElements
validLink(ns, l) == l.source \in Range(ns) /\ l.target \in Range(ns)

\* node.groups: the ids of the groups that list the node, in this.groups order
groupsListing(gs, n) ==
  LET lists(g) == n \in g.nodeIds
      hit == SelectSeq(gs, lists)
  IN [i \in 1..Len(hit) |-> hit[i].id]

BuildFromElements ==
  /\ pc = "dom"
  /\ nodes' = elNodes
  /\ links' = LET ok(l) == validLink(elNodes, l) IN SelectSeq(elEdges, ok)
  /\ warnings' = warnings + Cardinality({i \in 1..Len(elEdges) : ~validLink(elNodes, elEdges[i])})
  /\ groups' = elGroups
  /\ nodeGroups' = [n \in Range(elNodes) |-> groupsListing(elGroups, n)]
  /\ pos' = [n \in Range(elNodes) |-> Undefined]
  /\ world' = [n \in Range(elNodes) |-> UndefinedWorld]
  /\ via' = [n \in Range(elNodes) |-> "none"]
  /\ pc' = "begin"
  /\ UNCHANGED <<domVars, uiVars, run, firstResult, layoutVars, meshVars, updateVars>>

\* ------------------------------------------------ calculateGridPositions
\* calculateGridPositions with the occupied cells kept from one call to the next
BeginLayout_KeepOccupied ==
  /\ pc = "begin"
  /\ run' = run + 1
  /\ IF Len(nodes) = 0
     THEN /\ pc' = IF run = 0 THEN "laid" ELSE "relaid"
          /\ firstResult' = IF run = 0 THEN pos ELSE firstResult
          /\ UNCHANGED layoutVars
     ELSE /\ pc' = "place"
          /\ sortedGroups' = SortedGroupsOf(nodes, nodeGroups, links)
          /\ ungroupedNodes' = SortedUngroupedOf(nodes, nodeGroups, links)
          /\ occupiedPositions' = occupiedPositions
          /\ placedNodes' = {}
          /\ groupBounds' = <<>>
          /\ gIdx' = 1
          /\ mIdx' = 1
          /\ uIdx' = 1
          /\ UNCHANGED firstResult
  /\ UNCHANGED <<domVars, uiVars, builderVars, pos, world, via, warnings, meshVars, updateVars>>

\* the statements before the first placement
BeginLayout ==
  /\ pc = "begin"
  /\ run' = run + 1
  /\ IF Len(nodes) = 0
     THEN /\ pc' = IF run = 0 THEN "laid" ELSE "relaid"
          /\ firstResult' = IF run = 0 THEN pos ELSE firstResult
          /\ UNCHANGED layoutVars
     ELSE /\ pc' = "place"
          /\ sortedGroups' = SortedGroupsOf(nodes, nodeGroups, links)
          /\ ungroupedNodes' = SortedUngroupedOf(nodes, nodeGroups, links)
          /\ occupiedPositions' = {}
          /\ placedNodes' = {}
          /\ groupBounds' = <<>>
          /\ gIdx' = 1
          /\ mIdx' = 1
          /\ uIdx' = 1
          /\ UNCHANGED firstResult
  /\ UNCHANGED <<domVars, uiVars, builderVars, pos, world, via, warnings, meshVars, updateVars>>

\* placeNode, and the bookkeeping every placement ends with
Placed(node, p, how) ==
  /\ occupiedPositions' = occupiedPositions \cup {getPositionKey(p)}
  /\ pos' = [pos EXCEPT ![node] = p]
  /\ world' = [world EXCEPT ![node] = nodeWorld(p, nodeSpacing)]
  /\ via' = [via EXCEPT ![node] = how]
  /\ placedNodes' = placedNodes \cup {node}

\* the loops' next position; the method returns after the last ungrouped node
Advance(g, m, u) ==
  /\ gIdx' = g
  /\ mIdx' = m
  /\ uIdx' = u
  /\ LET over == g > Len(sortedGroups) /\ u > Len(ungroupedNodes)
     IN /\ pc' = IF ~over THEN "place" ELSE IF run = 1 THEN "laid" ELSE "relaid"
        /\ firstResult' = IF over /\ run = 1 THEN pos' ELSE firstResult

AfterMember ==
  IF mIdx < Len(sortedGroups[gIdx].nodes)
  THEN Advance(gIdx, mIdx + 1, uIdx)
  ELSE Advance(gIdx + 1, 1, uIdx)

\* where the first node of a group goes
FirstNodeChoice(occ, gb, groupId, isFirstGroup) ==
  IF isFirstGroup THEN [p |-> Cell(0, 0), how |-> "origin"]
  ELSE LET f == RingSearch(occ, gb, Cell(0, 0), groupSpacing + 1, GroupRingLimit, groupId, TRUE)
       IN IF f # NoPos THEN [p |-> f, how |-> "ring"]
          ELSE [p |-> findNearestAvailablePosition(occ, Cell(0, 0)), how |-> "fallback"]

PlaceGroupFirst ==
  /\ pc = "place"
  /\ gIdx <= Len(sortedGroups)
  /\ mIdx = 1
  /\ LET groupId == sortedGroups[gIdx].id
         firstNode == sortedGroups[gIdx].nodes[1]
         c == FirstNodeChoice(occupiedPositions, groupBounds, groupId, gIdx = 1)
     IN /\ Placed(firstNode, c.p, c.how)
        /\ groupBounds' = updateGroupBounds(groupBounds, groupId, c.p)
  /\ AfterMember
  /\ UNCHANGED <<domVars, uiVars, builderVars, warnings, run, sortedGroups, ungroupedNodes,
                 meshVars, updateVars>>

\* the adjacent cell of the latest placed member that has one
RECURSIVE NearMember_LatestFirst(_, _, _, _, _, _)
NearMember_LatestFirst(occ, gb, ps, members, j, groupId) ==
  IF j > Len(members) THEN NoPos
  ELSE LET f == FirstOffset(occ, gb, ps[members[Len(members) + 1 - j]], groupId)
       IN IF f # NoPos THEN f
          ELSE NearMember_LatestFirst(occ, gb, ps, members, j + 1, groupId)

\* the adjacent cell of the earliest placed member that has one
RECURSIVE NearMember(_, _, _, _, _, _)
NearMember(occ, gb, ps, members, j, groupId) ==
  IF j > Len(members) THEN NoPos
  ELSE LET f == FirstOffset(occ, gb, ps[members[j]], groupId)
       IN IF f # NoPos THEN f ELSE NearMember(occ, gb, ps, members, j + 1, groupId)

MemberChoice(occ, gb, ps, members, i, groupId) ==
  LET near == NearMember(occ, gb, ps, SubSeq(members, 1, i - 1), 1, groupId)
      first == ps[members[1]]
      ring == RingSearch(occ, gb, first, 1, MemberRingLimit, groupId, TRUE)
  IN IF near # NoPos THEN [p |-> near, how |-> "neighbor"]
     ELSE IF ring # NoPos THEN [p |-> ring, how |-> "ring"]
     ELSE [p |-> findNearestAvailablePosition(occ, first), how |-> "fallback"]

PlaceGroupMember ==
  /\ pc = "place"
  /\ gIdx <= Len(sortedGroups)
  /\ mIdx > 1
  /\ LET groupId == sortedGroups[gIdx].id
         members == sortedGroups[gIdx].nodes
         c == MemberChoice(occupiedPositions, groupBounds, pos, members, mIdx, groupId)
     IN /\ Placed(members[mIdx], c.p, c.how)
        /\ groupBounds' = updateGroupBounds(groupBounds, groupId, c.p)
  /\ AfterMember
  /\ UNCHANGED <<domVars, uiVars, builderVars, warnings, run, sortedGroups, ungroupedNodes,
                 meshVars, updateVars>>

\* the first entry of the node's adjacency list that is in placedNodes
FirstPlacedNeighbor(ls, node, placed) ==
  LET adj == adjacencyList(ls, node)
      hit == {i \in 1..Len(adj) : adj[i] \in placed}
  IN IF hit = {} THEN GhostId ELSE adj[CHOOSE i \in hit : \A h \in hit : i <= h]

UngroupedChoice(occ, gb, ps, ls, node, placed) ==
  IF placed = {} THEN [p |-> Cell(0, 0), how |-> "origin"]
  ELSE LET nb == FirstPlacedNeighbor(ls, node, placed)
           near == IF nb = GhostId THEN NoPos ELSE FirstOffset(occ, gb, ps[nb], NullGroup)
           ring == IF nb = GhostId THEN NoPos
                   ELSE RingSearch(occ, gb, ps[nb], 1, NeighborRingLimit, NullGroup, TRUE)
           centre == RingSearch(occ, gb, Cell(0, 0), 0, OriginRingLimit, NullGroup, TRUE)
       IN IF near # NoPos THEN [p |-> near, how |-> "neighbor"]
          ELSE IF ring # NoPos THEN [p |-> ring, how |-> "ring"]
          ELSE IF centre # NoPos THEN [p |-> centre, how |-> "centre"]
          ELSE [p |-> NoPos, how |-> "unplaced"]

PlaceUngrouped ==
  /\ pc = "place"
  /\ gIdx > Len(sortedGroups)
  /\ uIdx <= Len(ungroupedNodes)
  /\ LET node == ungroupedNodes[uIdx]
         c == UngroupedChoice(occupiedPositions, groupBounds, pos, links, node, placedNodes)
     IN IF c.p # NoPos
        THEN Placed(node, c.p, c.how)
        ELSE /\ placedNodes' = placedNodes \cup {node}
             /\ via' = [via EXCEPT ![node] = c.how]
             /\ UNCHANGED <<occupiedPositions, pos, world>>
  /\ Advance(gIdx, mIdx, uIdx + 1)
  /\ UNCHANGED <<domVars, uiVars, builderVars, warnings, run, sortedGroups, ungroupedNodes, groupBounds,
                 meshVars, updateVars>>

\* a second call of calculateGridPositions on the same instance, after the build
Recalculate ==
  /\ pc = "built"
  /\ run = 1
  /\ pc' = "begin"
  /\ UNCHANGED <<domVars, uiVars, builderVars, pos, world, via, warnings, run, firstResult, layoutVars,
                 meshVars, updateVars>>

\* --------------------- calculateGridPositions of src/src/graph-builder.js
\* the while loop: the first node of nodesToPlace that has a placed neighbour is put
\* beside its first placed neighbour, or on the nearest free cell around it; when no
\* node has one, the first of nodesToPlace takes the nearest free cell around (0, 0)
RECURSIVE placeRemaining(_, _, _, _, _)
placeRemaining(ps, occ, placed, nodesToPlace, ls) ==
  IF nodesToPlace = <<>> THEN ps
  ELSE LET linked == {i \in 1..Len(nodesToPlace) :
                        FirstPlacedNeighbor(ls, nodesToPlace[i], placed) # GhostId}
           i == IF linked = {} THEN 1 ELSE CHOOSE j \in linked : \A h \in linked : j <= h
           node == nodesToPlace[i]
           nb == FirstPlacedNeighbor(ls, node, placed)
           near == IF nb = GhostId THEN NoPos ELSE FirstOffset(occ, <<>>, ps[nb], NullGroup)
           p == IF nb = GhostId THEN findNearestAvailablePosition(occ, Cell(0, 0))
                ELSE IF near # NoPos THEN near
                ELSE findNearestAvailablePosition(occ, ps[nb])
           rest == [k \in 1..(Len(nodesToPlace) - 1) |->
                      IF k < i THEN nodesToPlace[k] ELSE nodesToPlace[k + 1]]
       IN placeRemaining([ps EXCEPT ![node] = p], occ \cup {getPositionKey(p)},
                         placed \cup {node}, rest, ls)

\* the grid cells the method leaves on the nodes: the most connected node at (0, 0),
\* the others by the while loop
centerLayout(ns, ls) ==
  IF ns = <<>> THEN <<>>
  ELSE LET deg(n) == connectionMap(ls, n)
           sortedNodes == SortDescStable(ns, deg)
           centerNode == sortedNodes[1]
       IN placeRemaining([n \in Range(ns) |-> IF n = centerNode THEN Cell(0, 0) ELSE Undefined],
                         {getPositionKey(Cell(0, 0))}, {centerNode}, Tail(sortedNodes), ls)

\* ------------------------------------------------- GroupWireframeManager
voxelSize == padding * 2

\* Math.round(a / b) for b > 0: the nearest integer, a tie going up
RoundDiv(a, b) == (2 * a + b) \div (2 * b)

\* the voxel of the box around a node at w; the box centre (min + max) / 2 is w
boxVoxel(w) ==
  <<RoundDiv(((w.x - padding) + (w.x + padding)) \div 2, voxelSize),
    RoundDiv(((w.y - padding) + (w.y + padding)) \div 2, voxelSize),
    RoundDiv(((w.z - padding) + (w.z + padding)) \div 2, voxelSize)>>

\* `${x},${y},${z}` is injective on triples of integers
getVoxelKey(v) == v

isVoxelOccupied(vm, v) == getVoxelKey(v) \in Range(vm)

\* voxelMap.set for a key the Map may already hold: the key keeps its place
MapSet(vm, v) == IF getVoxelKey(v) \in Range(vm) THEN vm ELSE Append(vm, getVoxelKey(v))

RECURSIVE MapSetAll(_, _)
MapSetAll(vm, vs) == IF vs = <<>> THEN vm ELSE MapSetAll(MapSet(vm, Head(vs)), Tail(vs))

\* for (let c = from; c !== to; c += step): the values c takes
RECURSIVE Steps(_, _)
Steps(from, to) ==
  IF from = to THEN <<>>
  ELSE <<from>> \o Steps(from + (IF from < to THEN 1 ELSE -1), to)

\* the voxels addCorridor visits: along x at (y1, z1), then along y at (x2, z1),
\* then along z at (x2, y2); the end voxel itself is not visited
corridorVoxels(a, b) ==
  LET xs == Steps(a[1], b[1])
      ys == Steps(a[2], b[2])
      zs == Steps(a[3], b[3])
  IN [i \in 1..Len(xs) |-> <<xs[i], a[2], a[3]>>]
     \o [i \in 1..Len(ys) |-> <<b[1], ys[i], a[3]>>]
     \o [i \in 1..Len(zs) |-> <<b[1], b[2], zs[i]>>]

\* a corridor that starts from an empty Map instead of adding to voxelMap
addCorridor_Restart(vm, a, b) == MapSetAll(<<>>, corridorVoxels(a, b))

addCorridor(vm, a, b) == MapSetAll(vm, corridorVoxels(a, b))

\* dx * dx + dy * dy + dz * dz; the code compares the square roots, which are
\* ordered as the sums are
dist2(a, b) ==
  (a[1] - b[1]) * (a[1] - b[1]) + (a[2] - b[2]) * (a[2] - b[2])
    + (a[3] - b[3]) * (a[3] - b[3])

\* the first j # i at the greatest distance
nearestIdx_Farthest(nv, i) ==
  LET others == (1..Len(nv)) \ {i}
  IN IF others = {} THEN 0
     ELSE CHOOSE j \in others :
            \A h \in others :
              \/ dist2(nv[i], nv[j]) > dist2(nv[i], nv[h])
              \/ (dist2(nv[i], nv[j]) = dist2(nv[i], nv[h]) /\ j <= h)

\* the index the inner loop leaves in nearestIdx: the first j # i at the least
\* distance; 0 when there is no other voxel
nearestIdx(nv, i) ==
  LET others == (1..Len(nv)) \ {i}
  IN IF others = {} THEN 0
     ELSE CHOOSE j \in others :
            \A h \in others :
              \/ dist2(nv[i], nv[j]) < dist2(nv[i], nv[h])
              \/ (dist2(nv[i], nv[j]) = dist2(nv[i], nv[h]) /\ j <= h)

\* toFixed(2): the decimal string with two fraction digits, represented by the
\* number of hundredths it denotes; parseFloat reads it back
toFixed2(v) == v * 100
parseFloat(k) == k \div 100

\* addEdge without the normalisation: the endpoints in the order of the call
edgeKey_AsCalled(a, b) ==
  <<toFixed2(a[1]), toFixed2(a[2]), toFixed2(a[3]),
    toFixed2(b[1]), toFixed2(b[2]), toFixed2(b[3])>>

\* addEdge with a normalisation that looks at x only
edgeKey_XOnly(a, b) ==
  IF a[1] < b[1]
  THEN <<toFixed2(a[1]), toFixed2(a[2]), toFixed2(a[3]),
         toFixed2(b[1]), toFixed2(b[2]), toFixed2(b[3])>>
  ELSE <<toFixed2(b[1]), toFixed2(b[2]), toFixed2(b[3]),
         toFixed2(a[1]), toFixed2(a[2]), toFixed2(a[3])>>

\* the key addEdge stores: the lexicographically smaller endpoint first
edgeKey(a, b) ==
  IF \/ a[1] < b[1]
     \/ (a[1] = b[1] /\ a[2] < b[2])
     \/ (a[1] = b[1] /\ a[2] = b[2] /\ a[3] < b[3])
  THEN <<toFixed2(a[1]), toFixed2(a[2]), toFixed2(a[3]),
         toFixed2(b[1]), toFixed2(b[2]), toFixed2(b[3])>>
  ELSE <<toFixed2(b[1]), toFixed2(b[2]), toFixed2(b[3]),
         toFixed2(a[1]), toFixed2(a[2]), toFixed2(a[3])>>

\* the six face tests in the order of the code: -Z, +Z, -X, +X, -Y, +Y
faceDirs == << <<0, 0, -1>>, <<0, 0, 1>>, <<-1, 0, 0>>, <<1, 0, 0>>,
               <<0, -1, 0>>, <<0, 1, 0>> >>

\* the four addEdge calls of one face of the voxel v, in call order
faceEdges(v, d) ==
  LET x == v[1] * voxelSize
      y == v[2] * voxelSize
      z == v[3] * voxelSize
      half == voxelSize \div 2
      minX == x - half
      maxX == x + half
      minY == y - half
      maxY == y + half
      minZ == z - half
      maxZ == z + half
  IN IF d[3] # 0
     THEN LET z0 == IF d[3] < 0 THEN z - half ELSE z + half
          IN << edgeKey(<<minX, minY, z0>>, <<maxX, minY, z0>>),
                edgeKey(<<maxX, minY, z0>>, <<maxX, maxY, z0>>),
                edgeKey(<<maxX, maxY, z0>>, <<minX, maxY, z0>>),
                edgeKey(<<minX, maxY, z0>>, <<minX, minY, z0>>) >>
     ELSE IF d[1] # 0
     THEN LET x0 == IF d[1] < 0 THEN x - half ELSE x + half
          IN << edgeKey(<<x0, minY, minZ>>, <<x0, maxY, minZ>>),
                edgeKey(<<x0, maxY, minZ>>, <<x0, maxY, maxZ>>),
                edgeKey(<<x0, maxY, maxZ>>, <<x0, minY, maxZ>>),
                edgeKey(<<x0, minY, maxZ>>, <<x0, minY, minZ>>) >>
     ELSE LET y0 == IF d[2] < 0 THEN y - half ELSE y + half
          IN << edgeKey(<<minX, y0, minZ>>, <<maxX, y0, minZ>>),
                edgeKey(<<maxX, y0, minZ>>, <<maxX, y0, maxZ>>),
                edgeKey(<<maxX, y0, maxZ>>, <<minX, y0, maxZ>>),
                edgeKey(<<minX, y0, maxZ>>, <<minX, y0, minZ>>) >>

\* face culling switched off: every face of every voxel counts as exposed
faceExposed_Always(vm, v, d) == TRUE

\* the test that guards a face: the voxel next to v in direction d is not occupied
faceExposed(vm, v, d) == ~isVoxelOccupied(vm, <<v[1] + d[1], v[2] + d[2], v[3] + d[3]>>)

\* the addEdge calls of one voxel in call order: its exposed faces from the f-th
\* of faceDirs on, four edges a face
RECURSIVE addEdgeCalls(_, _, _)
addEdgeCalls(vm, v, f) ==
  IF f > Len(faceDirs) THEN <<>>
  ELSE (IF faceExposed(vm, v, faceDirs[f]) THEN faceEdges(v, faceDirs[f]) ELSE <<>>)
       \o addEdgeCalls(vm, v, f + 1)

\* a Set filled by add in the order of ks: each key once, at its first add
SetOf(ks) ==
  LET tagged == [c \in 1..Len(ks) |-> [at |-> c, key |-> ks[c]]]
      first(e) == \A c \in 1..(e.at - 1) : ks[c] # e.key
      kept == SelectSeq(tagged, first)
  IN [c \in 1..Len(kept) |-> kept[c].key]

\* edgeSet after voxelMap.forEach has visited the voxels from the i-th on
RECURSIVE cullFaces(_, _, _)
cullFaces(vm, i, es) ==
  IF i > Len(vm) THEN es
  ELSE LET held == Range(es)
           fresh(k) == k \notin held
       IN cullFaces(vm, i + 1, es \o SelectSeq(SetOf(addEdgeCalls(vm, vm[i], 1)), fresh))

\* ------------------------------------------------------- edge merging
\* Array.from(edgeSet).map(...): an edge is <<x1, y1, z1, x2, y2, z2>>
edgesOf(es) ==
  LET coords(k) == <<parseFloat(k[1]), parseFloat(k[2]), parseFloat(k[3]),
                     parseFloat(k[4]), parseFloat(k[5]), parseFloat(k[6])>>
      all(k) == TRUE
  IN SelectSeq([i \in 1..Len(es) |-> coords(es[i])], all)

\* the axis along which the edge runs; "none" for the edges the code skips
direction(e) ==
  IF e[1] # e[4] /\ e[2] = e[5] /\ e[3] = e[6] THEN "x"
  ELSE IF e[2] # e[5] /\ e[1] = e[4] /\ e[3] = e[6] THEN "y"
  ELSE IF e[3] # e[6] /\ e[1] = e[4] /\ e[2] = e[5] THEN "z"
  ELSE "none"

\* the key of edgeGroups: direction and the two fixed coordinates
lineKey(e) ==
  LET d == direction(e)
  IN IF d = "x" THEN <<"x", toFixed2(e[2]), toFixed2(e[3])>>
     ELSE IF d = "y" THEN <<"y", toFixed2(e[1]), toFixed2(e[3])>>
     ELSE IF d = "z" THEN <<"z", toFixed2(e[1]), toFixed2(e[2])>>
     ELSE <<"none", 0, 0>>

\* every edge with the key computed for it: <<key, edge>>
keyedEdges(edges) ==
  LET all(p) == TRUE
  IN SelectSeq([i \in 1..Len(edges) |-> <<lineKey(edges[i]), edges[i]>>], all)

\* the keys of edgeGroups in Map insertion order
edgeGroupKeys(keyed) ==
  LET straight(k) == k[1] # "none"
      all(k) == TRUE
  IN SetOf(SelectSeq(SelectSeq([i \in 1..Len(keyed) |-> keyed[i][1]], all), straight))

\* edgeGroups.get(key): the edges pushed under the key, in the order of the pushes
groupEdges(keyed, key) ==
  LET onLine(p) == p[1] = key
      all(e) == TRUE
      sel == SelectSeq(keyed, onLine)
  IN SelectSeq([i \in 1..Len(sel) |-> sel[i][2]], all)

\* a comparison that takes any two segments of a line for touching
withinTolerance_Always(a, b) == TRUE

\* Math.abs(a - b) < tolerance with tolerance 0.01
withinTolerance(a, b) == Abs(a - b) * 100 < 1

\* the index of the first and of the second endpoint's varying coordinate
lowAt(d) == CASE d = "x" -> 1 [] d = "y" -> 2 [] OTHER -> 3
highAt(d) == lowAt(d) + 3

\* one pass of the inner for loop from index j on
RECURSIVE extendScan(_, _, _, _, _, _)
extendScan(current, segments, used, j, d, extended) ==
  IF j > Len(segments)
  THEN [current |-> current, used |-> used, extended |-> extended]
  ELSE IF j \in used THEN extendScan(current, segments, used, j + 1, d, extended)
  ELSE LET other == segments[j]
       IN IF withinTolerance(current[highAt(d)], other[lowAt(d)])
          THEN extendScan([current EXCEPT ![highAt(d)] = other[highAt(d)]], segments,
                          used \cup {j}, j + 1, d, TRUE)
          ELSE IF withinTolerance(current[lowAt(d)], other[highAt(d)])
          THEN extendScan([current EXCEPT ![lowAt(d)] = other[lowAt(d)]], segments,
                          used \cup {j}, j + 1, d, TRUE)
          ELSE extendScan(current, segments, used, j + 1, d, extended)

\* a single pass of the inner loop, without the while around it
extendWhile_OnePass(current, segments, used, d) ==
  extendScan(current, segments, used, 1, d, FALSE)

\* while (extended): passes until one extends nothing
RECURSIVE extendWhile(_, _, _, _)
extendWhile(current, segments, used, d) ==
  LET r == extendScan(current, segments, used, 1, d, FALSE)
  IN IF r.extended THEN extendWhile(r.current, segments, r.used, d) ELSE r

\* the outer for loop of one group from index i on: the segments it pushes
RECURSIVE mergeGroup(_, _, _, _)
mergeGroup(segments, i, used, d) ==
  IF i > Len(segments) THEN <<>>
  ELSE IF i \in used THEN mergeGroup(segments, i + 1, used, d)
  ELSE LET r == extendWhile(segments[i], segments, used \cup {i}, d)
       IN <<r.current>> \o mergeGroup(segments, i + 1, r.used, d)

\* edgeGroups.forEach: the groups in key order, from the k-th key on
RECURSIVE mergeFrom(_, _, _)
mergeFrom(keyed, keys, k) ==
  IF k > Len(keys) THEN <<>>
  ELSE LET segments == groupEdges(keyed, keys[k])
       IN mergeGroup(segments, 1, {}, keys[k][1]) \o mergeFrom(keyed, keys, k + 1)

\* mergedEdges for an array of edges
mergeEdges(edges) ==
  LET keyed == keyedEdges(edges)
      keys == edgeGroupKeys(keyed)
  IN mergeFrom(keyed, keys, 1)

\* a filter that lets every node through, whatever the group lists
groupNodesOf_All(ns, group) == ns

\* nodes.filter(n => group.nodeIds.includes(n.id))
groupNodesOf(ns, group) == LET listed(n) == n \in group.nodeIds IN SelectSeq(ns, listed)

\* the nodes that get a box: node.x !== undefined
boxNodesOf(ns, group, ws) ==
  LET has(n) == ws[n].k # "undefined" IN SelectSeq(groupNodesOf(ns, group), has)

\* the sums and the count whose quotients are group.center
centerOf(gn, ws) ==
  LET RECURSIVE Sum(_, _)
      Sum(q, a) ==
        IF q = <<>> THEN 0
        ELSE (CASE a = 1 -> ws[Head(q)].x [] a = 2 -> ws[Head(q)].y [] OTHER -> ws[Head(q)].z)
             + Sum(Tail(q), a)
  IN [sum |-> <<Sum(gn, 1), Sum(gn, 2), Sum(gn, 3)>>, count |-> Len(gn)]

\* createWireframes: removeAll, then one placeholder mesh per group
CreateWireframes ==
  /\ pc = "laid"
  /\ groupWireframes' = [i \in 1..Len(groups) |-> [mesh |-> meshCount + i, group |-> groups[i]]]
  /\ scene' = (scene \ {groupWireframes[i].mesh : i \in 1..Len(groupWireframes)})
                \cup {meshCount + i : i \in 1..Len(groups)}
  /\ meshCount' = meshCount + Len(groups)
  /\ pc' = "update"
  /\ wIdx' = 1
  /\ wpc' = "start"
  /\ UNCHANGED <<domVars, uiVars, builderVars, pos, world, via, warnings, run, firstResult, layoutVars,
                 center, nodeVoxels, voxelMap, cIdx, edgeSet, mergedEdges>>

\* update returns after the last wireframe
UpdateReturn ==
  /\ pc = "update"
  /\ wIdx > Len(groupWireframes)
  /\ pc' = "built"
  /\ wpc' = "idle"
  /\ UNCHANGED <<domVars, uiVars, builderVars, pos, world, via, warnings, run, firstResult, layoutVars,
                 meshVars, wIdx, nodeVoxels, voxelMap, cIdx, edgeSet, mergedEdges>>

\* the iteration that leaves the old mesh in the scene
UpdateStart_KeepOldMesh ==
  /\ pc = "update"
  /\ wIdx <= Len(groupWireframes)
  /\ wpc = "start"
  /\ LET w == groupWireframes[wIdx]
         gn == groupNodesOf(nodes, w.group)
         bn == boxNodesOf(nodes, w.group, world)
         nv == [i \in 1..Len(bn) |-> boxVoxel(world[bn[i]])]
     IN IF Len(gn) = 0
        THEN /\ wIdx' = wIdx + 1
             /\ UNCHANGED <<scene, wpc, nodeVoxels, voxelMap, cIdx, edgeSet, mergedEdges>>
        ELSE /\ scene' = scene
             /\ nodeVoxels' = nv
             /\ voxelMap' = MapSetAll(<<>>, nv)
             /\ cIdx' = 1
             /\ edgeSet' = <<>>
             /\ mergedEdges' = <<>>
             /\ wpc' = "connect"
             /\ UNCHANGED wIdx
  /\ UNCHANGED <<domVars, uiVars, builderVars, pos, world, via, warnings, pc, run, firstResult, layoutVars,
                 groupWireframes, meshCount, center>>

\* one iteration of update up to the connection loop: a group without nodes is
\* skipped; otherwise the old mesh leaves the scene and the node voxels are marked
UpdateStart ==
  /\ pc = "update"
  /\ wIdx <= Len(groupWireframes)
  /\ wpc = "start"
  /\ LET w == groupWireframes[wIdx]
         gn == groupNodesOf(nodes, w.group)
         bn == boxNodesOf(nodes, w.group, world)
         nv == [i \in 1..Len(bn) |-> boxVoxel(world[bn[i]])]
     IN IF Len(gn) = 0
        THEN /\ wIdx' = wIdx + 1
             /\ UNCHANGED <<scene, wpc, nodeVoxels, voxelMap, cIdx, edgeSet, mergedEdges>>
        ELSE /\ scene' = scene \ {w.mesh}
             /\ nodeVoxels' = nv
             /\ voxelMap' = MapSetAll(<<>>, nv)
             /\ cIdx' = 1
             /\ edgeSet' = <<>>
             /\ mergedEdges' = <<>>
             /\ wpc' = "connect"
             /\ UNCHANGED wIdx
  /\ UNCHANGED <<domVars, uiVars, builderVars, pos, world, via, warnings, pc, run, firstResult, layoutVars,
                 groupWireframes, meshCount, center>>

\* one iteration of the connection loop
ConnectNearest ==
  /\ pc = "update"
  /\ wpc = "connect"
  /\ cIdx <= Len(nodeVoxels)
  /\ LET j == nearestIdx(nodeVoxels, cIdx)
     IN voxelMap' = IF j = 0 THEN voxelMap
                    ELSE addCorridor(voxelMap, nodeVoxels[cIdx], nodeVoxels[j])
  /\ cIdx' = cIdx + 1
  /\ UNCHANGED <<domVars, uiVars, builderVars, pos, world, via, warnings, pc, run, firstResult, layoutVars,
                 meshVars, wIdx, wpc, nodeVoxels, edgeSet, mergedEdges>>

\* the face culling pass over the whole voxelMap
CullFaces ==
  /\ pc = "update"
  /\ wpc = "connect"
  /\ cIdx > Len(nodeVoxels)
  /\ edgeSet' = cullFaces(voxelMap, 1, <<>>)
  /\ wpc' = "culled"
  /\ UNCHANGED <<domVars, uiVars, builderVars, pos, world, via, warnings, pc, run, firstResult, layoutVars,
                 meshVars, wIdx, nodeVoxels, voxelMap, cIdx, mergedEdges>>

\* the merge of the edges into mergedEdges
MergeEdges ==
  /\ pc = "update"
  /\ wpc = "culled"
  /\ mergedEdges' = mergeEdges(edgesOf(edgeSet))
  /\ wpc' = "merged"
  /\ UNCHANGED <<domVars, uiVars, builderVars, pos, world, via, warnings, pc, run, firstResult, layoutVars,
                 meshVars, wIdx, nodeVoxels, voxelMap, cIdx, edgeSet>>

\* the end of the iteration: the new mesh enters the scene and replaces the old one
\* in groupWireframes, and group.center is assigned
StoreMesh ==
  /\ pc = "update"
  /\ wpc = "merged"
  /\ LET w == groupWireframes[wIdx]
         gn == groupNodesOf(nodes, w.group)
     IN /\ scene' = scene \cup {meshCount + 1}
        /\ meshCount' = meshCount + 1
        /\ center' = [g \in DOMAIN center \cup {w.group.id} |->
                        IF g = w.group.id THEN centerOf(gn, world) ELSE center[g]]
        /\ groupWireframes' = [groupWireframes EXCEPT ![wIdx].mesh = meshCount + 1]
  /\ wIdx' = wIdx + 1
  /\ wpc' = "start"
  /\ UNCHANGED <<domVars, uiVars, builderVars, pos, world, via, warnings, pc, run, firstResult, layoutVars,
                 nodeVoxels, voxelMap, cIdx, edgeSet, mergedEdges>>

Next ==
  \/ BuildFromElements
  \/ BeginLayout
  \/ PlaceGroupFirst
  \/ PlaceGroupMember
  \/ PlaceUngrouped
  \/ CreateWireframes
  \/ UpdateStart
  \/ ConnectNearest
  \/ CullFaces
  \/ MergeEdges
  \/ StoreMesh
  \/ UpdateReturn
  \/ Recalculate

Spec == Init /\ [][Next]_vars

\* ------------------------------------------- update on a host's positions
\* GroupWireframeManager.update called with node positions of the caller's own
\* choice: up to MaxVoxelNodes nodes on a small lattice of world points (the
\* coordinates -60 and 100 fall half-way between two voxels), group 1 listing
\* every node and group 2 the first one, right after createWireframes
HostPoints == {Point(x, y, z) : x \in {-60, 40}, y \in {0, 40}, z \in {0, 100}}

InitVoxel ==
  /\ \E n \in 0..MaxVoxelNodes : \E w \in [1..n -> HostPoints] :
       /\ elNodes = [i \in 1..n |-> i]
       /\ nodes = [i \in 1..n |-> i]
       /\ world = w
       /\ pos = [i \in 1..n |-> Undefined]
       /\ via = [i \in 1..n |-> "none"]
       /\ elGroups = << [id |-> 1, nodeIds |-> 1..n], [id |-> 2, nodeIds |-> {1} \cap (1..n)] >>
       /\ nodeGroups = [i \in 1..n |-> IF i = 1 THEN <<1, 2>> ELSE <<1>>]
  /\ groups = elGroups
  /\ groupWireframes = [i \in 1..Len(elGroups) |-> [mesh |-> i, group |-> elGroups[i]]]
  /\ scene = 1..Len(elGroups)
  /\ meshCount = Len(elGroups)
  /\ elEdges = <<>>
  /\ links = <<>>
  /\ warnings = 0
  /\ pc = "update"
  /\ run = 0
  /\ firstResult = <<>>
  /\ sortedGroups = <<>>
  /\ ungroupedNodes = <<>>
  /\ occupiedPositions = {}
  /\ placedNodes = {}
  /\ groupBounds = <<>>
  /\ gIdx = 1
  /\ mIdx = 1
  /\ uIdx = 1
  /\ center = <<>>
  /\ wIdx = 1
  /\ wpc = "start"
  /\ nodeVoxels = <<>>
  /\ voxelMap = <<>>
  /\ cIdx = 1
  /\ edgeSet = <<>>
  /\ mergedEdges = <<>>
  /\ UiIdle

NextVoxel ==
  \/ UpdateStart
  \/ ConnectNearest
  \/ CullFaces
  \/ MergeEdges
  \/ StoreMesh
  \/ UpdateReturn

SpecVoxel == InitVoxel /\ [][NextVoxel]_vars

\* ------------------------------------------------ update called again
\* a further update(nodes) after the last one has returned, as long as fewer than
\* MaxMeshes meshes have been created
UpdateAgain ==
  /\ pc = "built"
  /\ meshCount + Len(groupWireframes) <= MaxMeshes
  /\ pc' = "update"
  /\ wIdx' = 1
  /\ wpc' = "start"
  /\ UNCHANGED <<domVars, uiVars, builderVars, pos, world, via, warnings, run, firstResult, layoutVars,
                 meshVars, nodeVoxels, voxelMap, cIdx, edgeSet, mergedEdges>>

\* createWireframes, then update on up to MaxMeshNodes nodes
InitMesh == InitVoxel /\ Len(nodes) <= MaxMeshNodes

NextMesh ==
  \/ UpdateStart
  \/ ConnectNearest
  \/ CullFaces
  \/ MergeEdges
  \/ StoreMesh
  \/ UpdateReturn
  \/ UpdateAgain

SpecMesh == InitMesh /\ [][NextMesh]_vars

\* ------------------------------------------------ selection and metadata
\* node.name || node.id
nameOrId(name, id) == IF name # NoName THEN name ELSE id

\* connectedNodeIds that looks at the source of a link only
connectedNodeIds_SourceOnly(ls, n) ==
  LET from(l) == l.source = n
      hit == SelectSeq(ls, from)
  IN SetOf([i \in 1..Len(hit) |-> hit[i].target])

\* connectedNodeIds of showNodeMetadata: the other end of every link that starts
\* or, failing that, ends at the node; a Set, so each id once in insertion order
connectedNodeIds(ls, n) ==
  LET touches(l) == l.source = n \/ l.target = n
      hit == SelectSeq(ls, touches)
  IN SetOf([i \in 1..Len(hit) |->
              IF hit[i].source = n THEN hit[i].target ELSE hit[i].source])

\* the detail of the event showNodeMetadata fires (content left out)
showNodeMetadata(n) ==
  LET ids == connectedNodeIds(links, n)
  IN [title |-> nameOrId(nodeName[n], n),
      links |-> [i \in 1..Len(ids) |->
                   IF ids[i] \in Range(nodes) THEN nameOrId(nodeName[ids[i]], ids[i])
                   ELSE ids[i]]]

\* group.nodeIds in the order of the attribute; the attribute lists ascending ids
RECURSIVE Ascending(_)
Ascending(S) ==
  IF S = {} THEN <<>>
  ELSE LET m == CHOOSE x \in S : \A y \in S : x <= y IN <<m>> \o Ascending(S \ {m})

\* the detail of the event showGroupMetadata fires for this.groups[i]
showGroupMetadata(i) ==
  LET found(id) == id \in Range(nodes)
      members == SelectSeq(Ascending(groups[i].nodeIds), found)
  IN [title |-> nameOrId(groupName[i], groups[i].id),
      links |-> [k \in 1..Len(members) |-> nameOrId(nodeName[members[k]], members[k])]]

\* onSelectionChange: the events it fires for a selection
onSelectionChange(selection) ==
  IF selection.kind = "none" THEN <<>>
  ELSE IF selection.kind = "node" THEN <<showNodeMetadata(selection.at)>>
  ELSE <<showGroupMetadata(selection.at)>>

\* selection.id
selectionId(selection) ==
  IF selection.kind = "node" THEN selection.at ELSE groups[selection.at].id

\* -(targetPosition): the offset that brings the target to the origin
Negated(p) == IF p.k = "num" THEN Point(-p.x, -p.y, -p.z) ELSE p

\* animateToNode(targetPosition): whatever animation runs is replaced by one from
\* where the graph group is now, started at the present reading of the clock
animateToNode(targetPosition) ==
  /\ offsetAnimation' = [active |-> TRUE, startPos |-> graphPos,
                         endPos |-> Negated(targetPosition)]
  /\ elapsed' = 0

\* resetScenePosition(): the same towards the origin
resetScenePosition ==
  /\ offsetAnimation' = [active |-> TRUE, startPos |-> graphPos, endPos |-> Origin]
  /\ elapsed' = 0

\* the value of the easing after e ticks, as <<numerator, denominator>>:
\* progress = min(e / duration, 1); 4 progress^3 below one half, else
\* 1 - (-2 progress + 2)^3 / 2
eased(e) ==
  LET T == TicksPerAnimation
      t == Min(e, T)
  IN IF 2 * t < T THEN <<4 * t * t * t, T * T * T>>
     ELSE <<2 * T * T * T - (2 * T - 2 * t) * (2 * T - 2 * t) * (2 * T - 2 * t),
            2 * T * T * T>>

\* Vector3.lerpVectors(v1, v2, alpha): v1 + (v2 - v1) * alpha on each axis
lerpVectors(v1, v2, alpha) ==
  IF v1.k = "num" /\ v2.k = "num"
  THEN Point(v1.x + ((v2.x - v1.x) * alpha[1]) \div alpha[2],
             v1.y + ((v2.y - v1.y) * alpha[1]) \div alpha[2],
             v1.z + ((v2.z - v1.z) * alpha[1]) \div alpha[2])
  ELSE NaNWorld

\* the interpolated position after e ticks is a whole number on each axis
Representable(v1, v2, e) ==
  \/ v1.k # "num"
  \/ v2.k # "num"
  \/ /\ ((v2.x - v1.x) * eased(e)[1]) % eased(e)[2] = 0
     /\ ((v2.y - v1.y) * eased(e)[1]) % eased(e)[2] = 0
     /\ ((v2.z - v1.z) * eased(e)[1]) % eased(e)[2] = 0

\* updateOffsetAnimation that stops on the last frame without moving the group
updateOffsetAnimation_StopShort ==
  IF elapsed >= TicksPerAnimation
  THEN offsetAnimation' = NoAnimation /\ elapsed' = 0 /\ UNCHANGED graphPos
  ELSE /\ graphPos' = lerpVectors(offsetAnimation.startPos, offsetAnimation.endPos,
                                  eased(elapsed))
       /\ UNCHANGED <<offsetAnimation, elapsed>>

\* updateOffsetAnimation(): the group is put on the interpolated position; once
\* the duration has passed that is the end position and offsetAnimation is cleared
updateOffsetAnimation ==
  /\ graphPos' = lerpVectors(offsetAnimation.startPos, offsetAnimation.endPos,
                             eased(elapsed))
  /\ IF elapsed >= TicksPerAnimation
     THEN offsetAnimation' = NoAnimation /\ elapsed' = 0
     ELSE UNCHANGED <<offsetAnimation, elapsed>>

\* the part of handleSelection that moves the scene: a node with a position is
\* centred, a node without one and a group wireframe leave the scene alone, null
\* brings the scene back
centerSelection(newSelection) ==
  /\ IF newSelection.kind = "node"
     THEN IF world[newSelection.at].k # "undefined"
          THEN animateToNode(world[newSelection.at])
          ELSE UNCHANGED <<offsetAnimation, elapsed>>
     ELSE IF newSelection.kind = "group"
          THEN UNCHANGED <<offsetAnimation, elapsed>>
          ELSE resetScenePosition
  /\ UNCHANGED graphPos

\* handleSelection that leaves the colour of the previous selection as it is
handleSelection_NoRestore(newSelection) ==
  /\ highlighted' = highlighted \cup (IF newSelection # NoSelection THEN {newSelection} ELSE {})
  /\ selectedObject' = newSelection
  /\ centerSelection(newSelection)
  /\ shown' = onSelectionChange(newSelection)

\* handleSelection(newSelection, onSelectionChange): the previous selection, when
\* there is one and it is not the new one, gets its original colour (and opacity)
\* back; the new one, when there is one, gets the highlight colour
handleSelection(newSelection) ==
  /\ highlighted' =
       (IF selectedObject # NoSelection /\ selectedObject # newSelection
        THEN highlighted \ {selectedObject} ELSE highlighted)
         \cup (IF newSelection # NoSelection THEN {newSelection} ELSE {})
  /\ selectedObject' = newSelection
  /\ centerSelection(newSelection)
  /\ shown' = onSelectionChange(newSelection)

\* the positions the pointer is pressed at, and those it is reported at
PressPixels == {Pixel(0, 0), Pixel(5, 5)}
Pixels == PressPixels \cup {Pixel(11, 5), Pixel(5, 11)}

\* the test of the mousemove listener that looks at dx only
movedBeyond_XOnly(dx, dy) == Abs(dx) > 5

\* Math.abs(dx) > 5 || Math.abs(dy) > 5
movedBeyond(dx, dy) == Abs(dx) > 5 \/ Abs(dy) > 5

\* pixel p lies more than 5 pixels from pixel q along x or along y
FartherThanFive(p, q) ==
  \/ p.x - q.x > 5 \/ q.x - p.x > 5
  \/ p.y - q.y > 5 \/ q.y - p.y > 5

\* the mousedown listener: the place of the press is kept, a new press is no drag yet
MouseDown ==
  /\ pc = "built"
  /\ \E p \in PressPixels : mouseDownPos' = p
  /\ isDragging' = FALSE
  /\ pointer' = "down"
  /\ shown' = <<>>
  /\ UNCHANGED <<domVars, builderVars, pos, world, via, warnings, pc, run, firstResult,
                 layoutVars, meshVars, updateVars, nodeName, groupName, selectedObject,
                 highlighted, sceneVars>>

\* the mousemove listener, for a pointer reported at p, pressed or not
MouseMove ==
  /\ pc = "built"
  /\ \E p \in Pixels :
       /\ isDragging' = (isDragging \/ movedBeyond(p.x - mouseDownPos.x, p.y - mouseDownPos.y))
       /\ pointer' = (IF pointer = "down" /\ FartherThanFive(p, mouseDownPos)
                      THEN "strayed" ELSE pointer)
  /\ shown' = <<>>
  /\ UNCHANGED <<domVars, builderVars, pos, world, via, warnings, pc, run, firstResult,
                 layoutVars, meshVars, updateVars, nodeName, groupName, selectedObject,
                 highlighted, mouseDownPos, sceneVars>>

\* a click on the label of node n
ClickLabelAt(n) ==
  /\ pc = "built"
  /\ IF selectedObject = NodeSelection(n)
     THEN handleSelection(NoSelection)
     ELSE handleSelection(NodeSelection(n))
  /\ UNCHANGED <<domVars, builderVars, pos, world, via, warnings, pc, run, firstResult,
                 layoutVars, meshVars, updateVars, nodeName, groupName, isDragging,
                 pointerVars>>

\* a click on a label; only a node with a name has a label
ClickLabel == \E n \in Range(nodes) : nodeName[n] # NoName /\ ClickLabelAt(n)

\* what the ray of a canvas click can meet first: the mesh of a node that has a
\* position, the mesh of a group wireframe in the scene, or nothing that can be
\* selected (NoSelection)
CanvasTargets ==
  {NodeSelection(n) : n \in {m \in Range(nodes) : world[m].k = "num"}}
    \cup {GroupSelection(i) : i \in {j \in 1..Len(groupWireframes) :
                                         groupWireframes[j].mesh \in scene}}
    \cup {NoSelection}

\* the click listener of the canvas, for a click that follows a press on the
\* canvas and whose ray meets t first
ClickCanvasAt(t) ==
  /\ pc = "built"
  /\ pointer # "idle"
  /\ pointer' = "idle"
  /\ IF isDragging
     THEN /\ isDragging' = FALSE
          /\ shown' = <<>>
          /\ UNCHANGED <<selectedObject, highlighted, sceneVars>>
     ELSE /\ IF t.kind = "node"
             THEN IF selectedObject = t
                  THEN handleSelection(NoSelection)
                  ELSE handleSelection(t)
             ELSE IF t.kind = "group"
                  THEN IF /\ selectedObject # NoSelection
                          /\ selectionId(selectedObject) = groupWireframes[t.at].group.id
                       THEN handleSelection(NoSelection)
                       ELSE handleSelection(t)
                  ELSE handleSelection(NoSelection)
          /\ UNCHANGED isDragging
  /\ UNCHANGED <<domVars, builderVars, pos, world, via, warnings, pc, run, firstResult,
                 layoutVars, meshVars, updateVars, nodeName, groupName, mouseDownPos>>

\* a click on the canvas
ClickCanvas == \E t \in CanvasTargets : ClickCanvasAt(t)

\* selectNodeById(id), also the click on an entry of the metadata panel
SelectNodeById ==
  /\ pc = "built"
  /\ \E id \in Range(nodes) \cup {GhostId} :
       IF id \in Range(nodes)
       THEN handleSelection(NodeSelection(id))
       ELSE shown' = <<>> /\ UNCHANGED <<selectedObject, highlighted, sceneVars>>
  /\ UNCHANGED <<domVars, builderVars, pos, world, via, warnings, pc, run, firstResult,
                 layoutVars, meshVars, updateVars, nodeName, groupName, isDragging,
                 pointerVars>>

\* time passes while an animation runs: the next frame reads the clock e ticks
\* after the start of the animation, at an instant for which the interpolated
\* position is a whole number; the end of the duration is always such an instant
Tick ==
  /\ pc = "built"
  /\ offsetAnimation.active
  /\ \E e \in (elapsed + 1)..TicksPerAnimation :
       /\ Representable(offsetAnimation.startPos, offsetAnimation.endPos, e)
       /\ elapsed' = e
  /\ shown' = <<>>
  /\ UNCHANGED <<domVars, builderVars, pos, world, via, warnings, pc, run, firstResult,
                 layoutVars, meshVars, updateVars, nodeName, groupName, selectedObject,
                 isDragging, highlighted, pointerVars, graphPos, offsetAnimation>>

\* animate(), the animation loop of the renderer, on a frame with an animation
animate ==
  /\ pc = "built"
  /\ offsetAnimation.active
  /\ updateOffsetAnimation
  /\ shown' = <<>>
  /\ UNCHANGED <<domVars, builderVars, pos, world, via, warnings, pc, run, firstResult,
                 layoutVars, meshVars, updateVars, nodeName, groupName, selectedObject,
                 isDragging, highlighted, pointerVars>>

\* the links of the selection inputs: links that start or end at the first node,
\* its self-link included
SelLinks(n) ==
  SeqsUpTo({Link(1, t) : t \in 1..n} \cup {Link(s, 1) : s \in 1..n}, MaxSelEdges)

\* the names of the selection inputs: no node has a name, or the first two have
SelNames(n) ==
  {[i \in 1..n |-> IF i \in named THEN 100 + i ELSE NoName] : named \in {{}, (1..2) \cap (1..n)}}

\* the node-ids of a group of the selection inputs: none, the first node, the
\* first two nodes and an id no node has, or every node
SelMembers(n) == {{}, {1} \cap (1..n), {GhostId, 1, 2} \cap (0..n), 1..n}

\* the groups of the selection inputs: none, or one group with or without a name,
\* whose id is or is not the id of a node, alone or followed by a second group
SelGroups(n) ==
  {<<>>}
    \cup {<<[id |-> g, nodeIds |-> m]>> : g \in {1, 11}, m \in SelMembers(n)}
    \cup {<<[id |-> 11, nodeIds |-> m], [id |-> 12, nodeIds |-> 1..n]>> : m \in SelMembers(n)}

\* the component after initialize(): the graph is built, the wireframes are in the
\* scene, the click handlers are set up, nothing is selected; the last node may be
\* one the layout has left without a position
InitSelect ==
  /\ \E n \in 0..MaxSelNodes : \E placed \in {n, Max(n - 1, 0)} :
       /\ elNodes = [i \in 1..n |-> i]
       /\ nodes = elNodes
       /\ \/ \E ls \in SelLinks(n) : elEdges = ls /\ elGroups = <<>>
          \/ \E gs \in SelGroups(n) : elGroups = gs /\ elEdges = <<>>
       /\ nodeName \in SelNames(n)
       /\ groupName \in [1..Len(elGroups) -> {NoName, 200}]
       /\ nodeGroups = [i \in 1..n |-> groupsListing(elGroups, i)]
       /\ pos = [i \in 1..n |-> IF i <= placed THEN Cell(i, 0) ELSE Undefined]
       /\ world = [i \in 1..n |-> IF i <= placed THEN nodeWorld(Cell(i, 0), nodeSpacing)
                                  ELSE UndefinedWorld]
       /\ via = [i \in 1..n |-> "none"]
       /\ placedNodes = 1..placed
  /\ links = elEdges
  /\ groups = elGroups
  /\ groupWireframes = [i \in 1..Len(elGroups) |-> [mesh |-> i, group |-> elGroups[i]]]
  /\ scene = 1..Len(elGroups)
  /\ meshCount = Len(elGroups)
  /\ warnings = 0
  /\ pc = "built"
  /\ run = 1
  /\ firstResult = pos
  /\ sortedGroups = <<>>
  /\ ungroupedNodes = <<>>
  /\ occupiedPositions = {}
  /\ groupBounds = <<>>
  /\ gIdx = 1
  /\ mIdx = 1
  /\ uIdx = 1
  /\ center = <<>>
  /\ wIdx = 1
  /\ wpc = "idle"
  /\ nodeVoxels = <<>>
  /\ voxelMap = <<>>
  /\ cIdx = 1
  /\ edgeSet = <<>>
  /\ mergedEdges = <<>>
  /\ shown = <<>>
  /\ highlighted = {}
  /\ HandlerIdle

NextSelect ==
  \/ MouseDown
  \/ MouseMove
  \/ ClickLabel
  \/ ClickCanvas
  \/ SelectNodeById

SpecSelect == InitSelect /\ [][NextSelect]_vars

\* ------------------------------------------------ selection with animation
\* up to MaxAnimNodes nodes without names or links, at most one group
InitAnimate ==
  /\ InitSelect
  /\ Len(nodes) <= MaxAnimNodes
  /\ elEdges = <<>>
  /\ Len(elGroups) <= 1
  /\ \A n \in DOMAIN nodeName : nodeName[n] = NoName
  /\ \A g \in DOMAIN groupName : groupName[g] = NoName

NextAnimate ==
  \/ MouseDown
  \/ ClickCanvas
  \/ SelectNodeById
  \/ Tick
  \/ animate

\* the renderer calls animate() on every frame and the clock goes on
SpecAnimate ==
  InitAnimate /\ [][NextAnimate]_vars /\ WF_vars(Tick) /\ WF_vars(animate)

\* ------------------------------------------------------------ vocabulary
Placing == pc \in {"place", "laid", "relaid"}

\* the nodes of the running (or finished) invocation that placeNode has been called for
Positioned == {n \in placedNodes : via[n] # "unplaced"}

Within(p, b) ==
  /\ p.k = "cell"
  /\ p.x >= b.minX /\ p.x <= b.maxX
  /\ p.y >= b.minY /\ p.y <= b.maxY

Buffered(b) ==
  [minX |-> b.minX - groupSpacing, maxX |-> b.maxX + groupSpacing,
   minY |-> b.minY - groupSpacing, maxY |-> b.maxY + groupSpacing]

Intersect(a, b) ==
  /\ a.minX <= b.maxX /\ b.minX <= a.maxX
  /\ a.minY <= b.maxY /\ b.minY <= a.maxY

\* ---------------------------------------------------------------- claims

\* C1: during and after calculateGridPositions no two placed nodes have the same
\* grid cell (gridX, gridY).
C1_NoCollision ==
  Placing =>
    \A a \in Positioned : \A b \in Positioned :
      a # b => getPositionKey(pos[a]) # getPositionKey(pos[b])

\* C2 (as stated): after placement, the bounds of two distinct groups, each expanded
\* by the spacing buffer of 3 cells, do not intersect.
C2_BufferedBoundsDisjoint ==
  pc = "laid" =>
    \A g \in DOMAIN groupBounds : \A h \in DOMAIN groupBounds :
      g # h => ~Intersect(Buffered(groupBounds[g]), Buffered(groupBounds[h]))

\* C2 (amended): a member of a group that the neighbour scan or a ring search placed
\* lies outside the bounds, expanded by 3 cells, of every group placed before its own.
C2_LaterGroupOutsideEarlierBuffer ==
  Placing =>
    \A j \in 1..Len(sortedGroups) : \A i \in 1..(j - 1) :
      \A n \in Range(sortedGroups[j].nodes) \cap Positioned :
        via[n] \in {"neighbor", "ring"} =>
          ~Within(pos[n], Buffered(groupBounds[sortedGroups[i].id]))

C2_Witness ==
  /\ pc = "laid"
  /\ Len(sortedGroups) = 2
  /\ \E n \in Range(sortedGroups[2].nodes) : via[n] = "neighbor"
  /\ \E n \in Range(sortedGroups[2].nodes) : via[n] = "ring"

\* C3: calculateGridPositions ends with every node holding a grid coordinate.
C3_EveryNodePlaced ==
  pc = "laid" => \A n \in Range(nodes) : pos[n].k = "cell"

\* C4 (as stated): after placement every node a group lists lies within the bounds
\* tracked for that group.
C4_ListedMembersWithinBounds ==
  pc = "laid" =>
    \A i \in 1..Len(groups) :
      groups[i].id \in DOMAIN groupBounds =>
        \A n \in groups[i].nodeIds \cap Positioned :
          Within(pos[n], groupBounds[groups[i].id])

\* C4 (amended): every placed node that some group lists lies within the bounds
\* tracked for its primary group, the first group in declaration order that lists it.
C4_PrimaryMembersWithinBounds ==
  Placing =>
    \A n \in Positioned :
      Len(nodeGroups[n]) > 0 =>
        /\ nodeGroups[n][1] \in DOMAIN groupBounds
        /\ Within(pos[n], groupBounds[nodeGroups[n][1]])

C4_Witness ==
  /\ pc = "laid"
  /\ \E n \in Positioned :
       /\ Len(nodeGroups[n]) = 2
       /\ nodeGroups[n][2] \in DOMAIN groupBounds
       /\ ~Within(pos[n], groupBounds[nodeGroups[n][2]])
  /\ \E g \in DOMAIN groupBounds : groupBounds[g].minX < groupBounds[g].maxX

\* C6: every placed node that no group lists lies outside the bounds, expanded by
\* 3 cells, of every group.
C6_UngroupedOutsideBuffers ==
  Placing =>
    \A n \in Positioned :
      Len(nodeGroups[n]) = 0 =>
        \A g \in DOMAIN groupBounds : ~Within(pos[n], Buffered(groupBounds[g]))

C6_Witness ==
  /\ pc = "laid"
  /\ DOMAIN groupBounds # {}
  /\ \E n \in Positioned : Len(nodeGroups[n]) = 0 /\ pos[n].k = "cell" /\ via[n] = "centre"
  /\ \E n \in Positioned : Len(nodeGroups[n]) = 0 /\ pos[n].k = "cell" /\ via[n] = "neighbor"

\* C7: a second calculateGridPositions on the same instance and the same input ends
\* with the grid coordinates the first one ended with.
C7_SecondRunSameResult ==
  pc = "relaid" => pos = firstResult

C7_Witness ==
  /\ pc = "relaid"
  /\ DOMAIN groupBounds # {}
  /\ \E n \in Range(nodes) : via[n] = "unplaced"
  /\ \E n \in Range(nodes) : pos[n].k = "NaN"

\* C8: nodes A, B, C (1, 2, 3) with links A-B, B-C and no group: degrees 1, 2, 1;
\* B at (0,0), A at (1,0), C at (-1,0); world positions (0,0,0), (80,0,0), (-80,0,0),
\* by the layout with groups and by the one of graph-builder.js alike.
ChainInput ==
  /\ elNodes = <<1, 2, 3>>
  /\ elEdges = <<Link(1, 2), Link(2, 3)>>
  /\ \A i \in 1..Len(elGroups) : elGroups[i].nodeIds = {}

C8_ChainScenario ==
  (ChainInput /\ pc = "laid") =>
    /\ connectionMap(links, 1) = 1 /\ connectionMap(links, 2) = 2 /\ connectionMap(links, 3) = 1
    /\ pos[2] = Cell(0, 0) /\ pos[1] = Cell(1, 0) /\ pos[3] = Cell(-1, 0)
    /\ world[2] = Point(0, 0, 0) /\ world[1] = Point(80, 0, 0)
    /\ world[3] = Point(-80, 0, 0)
    /\ LET ps == centerLayout(nodes, links)
       IN /\ ps[2] = Cell(0, 0) /\ ps[1] = Cell(1, 0) /\ ps[3] = Cell(-1, 0)
          /\ nodeWorld(ps[2], nodeSpacing) = Point(0, 0, 0)
          /\ nodeWorld(ps[1], nodeSpacing) = Point(80, 0, 0)
          /\ nodeWorld(ps[3], nodeSpacing) = Point(-80, 0, 0)

C8_Witness == ChainInput /\ pc = "laid" /\ run = 1

\* -------------------------------------------------------- voxel vocabulary
Occupied == Range(voxelMap)

Culled == pc = "update" /\ wpc = "culled"

FaceAdjacent(a, b) == Abs(a[1] - b[1]) + Abs(a[2] - b[2]) + Abs(a[3] - b[3]) = 1

RECURSIVE Grow(_, _)
Grow(S, seen) ==
  LET more == seen \cup {v \in S : \E u \in seen : FaceAdjacent(u, v)}
  IN IF more = seen THEN seen ELSE Grow(S, more)

Connected(S) == S = {} \/ Grow(S, {CHOOSE v \in S : TRUE}) = S

AxisDirs == {<<1, 0, 0>>, <<-1, 0, 0>>, <<0, 1, 0>>, <<0, -1, 0>>, <<0, 0, 1>>, <<0, 0, -1>>}

Plus(v, d) == <<v[1] + d[1], v[2] + d[2], v[3] + d[3]>>

\* the eight corners of the cube of voxel v
Corners(v) ==
  {<<v[1] * voxelSize + sx * padding, v[2] * voxelSize + sy * padding,
     v[3] * voxelSize + sz * padding>> : sx \in {-1, 1}, sy \in {-1, 1}, sz \in {-1, 1}}

\* the four edges of the face of voxel v that looks in direction d, as sets of two
\* corners: the corners on that side of the cube, joined where one coordinate differs
FaceRim(v, d) ==
  LET a == CHOOSE i \in 1..3 : d[i] # 0
      side == {q \in Corners(v) : q[a] = v[a] * voxelSize + d[a] * padding}
  IN {e \in {{q, r} : q \in side, r \in side} :
        \E q \in e : \E r \in e : Cardinality({i \in 1..3 : q[i] # r[i]}) = 1}

\* the two endpoints an edge key denotes
EdgePoints(k) ==
  {<<parseFloat(k[1]), parseFloat(k[2]), parseFloat(k[3])>>,
   <<parseFloat(k[4]), parseFloat(k[5]), parseFloat(k[6])>>}

Emitted == {EdgePoints(k) : k \in Range(edgeSet)}

ExposedDirs(v) == {d \in AxisDirs : Plus(v, d) \notin Occupied}

\* C5: once the corridors of a group are carved, its occupied voxels form one
\* component under face adjacency.
C5_VoxelsConnected ==
  Culled => Connected(Occupied)

\* C9: the emitted edges are exactly the edges of the faces of occupied voxels whose
\* neighbour across the face is unoccupied: each such face gives its four edges and
\* nothing else is emitted.
C9_ExposedFaceEdges ==
  Culled =>
    Emitted = UNION {UNION {FaceRim(v, d) : d \in ExposedDirs(v)} : v \in Occupied}

C9_Witness ==
  /\ Culled
  /\ \E v \in Occupied : \E d \in AxisDirs :
       /\ Plus(v, d) \in Occupied
       /\ \E e \in FaceRim(v, d) : e \notin Emitted
  /\ \E v \in Occupied : v[2] # 0

\* C10: a group of two nodes at world (0,0,0) and (80,0,0).
TwoNodeScenario ==
  /\ Culled
  /\ LET bn == boxNodesOf(nodes, groupWireframes[wIdx].group, world)
     IN [i \in 1..Len(bn) |-> world[bn[i]]] = <<Point(0, 0, 0), Point(80, 0, 0)>>

RowFacts ==
  /\ voxelSize = 40
  /\ nodeVoxels = << <<0, 0, 0>>, <<2, 0, 0>> >>
  /\ Occupied = {<<0, 0, 0>>, <<1, 0, 0>>, <<2, 0, 0>>}
  /\ {d \in Range(faceDirs) : faceExposed(voxelMap, <<1, 0, 0>>, d)}
       = AxisDirs \ {<<1, 0, 0>>, <<-1, 0, 0>>}
  /\ {d \in Range(faceDirs) : faceExposed(voxelMap, <<0, 0, 0>>, d)} = AxisDirs \ {<<1, 0, 0>>}
  /\ {d \in Range(faceDirs) : faceExposed(voxelMap, <<2, 0, 0>>, d)} = AxisDirs \ {<<-1, 0, 0>>}

\* the emitted edges that lie in the plane x = c
InPlaneX(c) == {e \in Emitted : \A q \in e : q[1] = c}

\* C10 (as stated): node voxels 0 and 2, corridor voxel 1, the faces between the
\* voxels culled, and no emitted edge in the plane of a face two voxels share.
C10_RowNoEdgeBetween ==
  TwoNodeScenario => (RowFacts /\ InPlaneX(20) = {} /\ InPlaneX(60) = {})

\* C10 (amended): node voxels 0 and 2, corridor voxel 1, the faces between the voxels
\* culled; the emitted edges are the 28 cube edges of the row, and the planes x = 20
\* and x = 60 hold the four rim edges of the shared face each, which the exposed
\* +/-y and +/-z faces of the voxels on either side emit.
C10_RowScenario ==
  TwoNodeScenario =>
    /\ RowFacts
    /\ Cardinality(Emitted) = 28
    /\ Len(edgeSet) = 28
    /\ InPlaneX(20) = FaceRim(<<0, 0, 0>>, <<1, 0, 0>>)
    /\ InPlaneX(60) = FaceRim(<<2, 0, 0>>, <<-1, 0, 0>>)

C10_Witness == TwoNodeScenario /\ Cardinality(groupWireframes[wIdx].group.nodeIds) = 2

\* ------------------------------------------------------ merge vocabulary
Merged == pc = "update" /\ wpc = "merged"

InputEdges == edgesOf(edgeSet)

\* the lattice points of a segment: its endpoints and the points between them,
\* one every half voxel
Cover(e) ==
  LET d == direction(e)
      n == (e[highAt(d)] - e[lowAt(d)]) \div padding
  IN IF d = "x" THEN {<<e[1] + k * padding, e[2], e[3]>> : k \in 0..n}
     ELSE IF d = "y" THEN {<<e[1], e[2] + k * padding, e[3]>> : k \in 0..n}
     ELSE IF d = "z" THEN {<<e[1], e[2], e[3] + k * padding>> : k \in 0..n}
     ELSE {<<e[1], e[2], e[3]>>, <<e[4], e[5], e[6]>>}

\* segment s holds edge e: same line, and e's span inside s's
Holds(s, e) ==
  LET d == direction(s)
  IN /\ d # "none"
     /\ d = direction(e)
     /\ s[lowAt(d)] <= e[lowAt(d)]
     /\ e[highAt(d)] <= s[highAt(d)]
     /\ lineKey(s) = lineKey(e)

\* two segments of one line that meet end to start
Touch(s, t) ==
  /\ lineKey(s) = lineKey(t)
  /\ \/ s[highAt(direction(s))] = t[lowAt(direction(s))]
     \/ t[highAt(direction(s))] = s[lowAt(direction(s))]

\* C11: the merge applied to the segments it produced returns the same list, and no
\* produced segment meets another produced segment of its line end to start.
C11_MergeIdempotent ==
  Merged =>
    /\ mergeEdges(mergedEdges) = mergedEdges
    /\ \A i \in 1..Len(mergedEdges) : \A j \in 1..Len(mergedEdges) :
         i # j => ~Touch(mergedEdges[i], mergedEdges[j])

C11_Witness ==
  /\ Merged
  /\ Len(mergedEdges) < Len(edgeSet)
  /\ \E i \in 1..Len(mergedEdges) : \E j \in 1..Len(mergedEdges) :
       i # j /\ lineKey(mergedEdges[i]) = lineKey(mergedEdges[j])

\* C12: the merged segments cover the points the input edges cover; a segment is
\* axis-parallel and is exactly the union of the input edges of its line that it
\* holds; every input edge is held by exactly one segment.
C12_MergeKeepsOutline ==
  Merged =>
    LET ins == InputEdges
        held(j) == {i \in 1..Len(ins) : Holds(mergedEdges[j], ins[i])}
    IN /\ \A j \in 1..Len(mergedEdges) :
            /\ direction(mergedEdges[j]) # "none"
            /\ Cover(mergedEdges[j]) = UNION {Cover(ins[i]) : i \in held(j)}
       /\ \A i \in 1..Len(ins) :
            Cardinality({j \in 1..Len(mergedEdges) : Holds(mergedEdges[j], ins[i])}) = 1
       /\ UNION {Cover(mergedEdges[j]) : j \in 1..Len(mergedEdges)}
            = UNION {Cover(ins[i]) : i \in 1..Len(ins)}

C12_Witness ==
  /\ Merged
  /\ \E j \in 1..Len(mergedEdges) :
       Cardinality({i \in 1..Len(InputEdges) : Holds(mergedEdges[j], InputEdges[i])}) >= 3
  /\ \E i \in 1..Len(mergedEdges) : \E j \in 1..Len(mergedEdges) :
       /\ i # j
       /\ lineKey(mergedEdges[i]) = lineKey(mergedEdges[j])
  /\ \E j \in 1..Len(mergedEdges) : mergedEdges[j] \in Range(InputEdges)

\* ------------------------------------------------------------ C13
\* buildFromElements has returned its graph
BuildDone == pc # "dom"

\* the network-edge elements whose source and target are both ids of
\* network-node elements
KnownEnds(i) == elEdges[i].source \in Range(elNodes) /\ elEdges[i].target \in Range(elNodes)

\* the number of link ends at node n among the elements with known ends
EndsAt(n) ==
  Cardinality({i \in 1..Len(elEdges) : KnownEnds(i) /\ elEdges[i].source = n})
    + Cardinality({i \in 1..Len(elEdges) : KnownEnds(i) /\ elEdges[i].target = n})

\* C13: after buildFromElements every retained link joins two existing nodes; the
\* retained links are the elements with known ends, in document order; each other
\* element has given one warning; the degree of a node counts the ends of retained
\* links only and its adjacency list names existing nodes only.
C13_LinksJoinExistingNodes ==
  BuildDone =>
    /\ \A i \in 1..Len(links) :
         links[i].source \in Range(nodes) /\ links[i].target \in Range(nodes)
    /\ LET known(l) == l.source \in Range(elNodes) /\ l.target \in Range(elNodes)
       IN links = SelectSeq(elEdges, known)
    /\ warnings = Cardinality({i \in 1..Len(elEdges) : ~KnownEnds(i)})
    /\ \A n \in Range(nodes) :
         /\ connectionMap(links, n) = EndsAt(n)
         /\ Range(adjacencyList(links, n)) \subseteq Range(nodes)

C13_Witness ==
  /\ pc = "laid"
  /\ \E i \in 1..Len(elEdges) : ~KnownEnds(i)
  /\ \E i \in 1..Len(elEdges) : KnownEnds(i)
  /\ Len(links) = 1
  /\ warnings = 1

\* ------------------------------------------------------------ C14
\* the conditions the engine recovers from, counted on the input and the layout:
\* elements with an unknown end, member ids no node has, fallback placements
UnknownEndLinks == Cardinality({i \in 1..Len(elEdges) : ~KnownEnds(i)})

StrayMemberIds ==
  Cardinality({<<i, m>> \in (1..Len(groups)) \X ({GhostId} \cup Range(nodes)) :
                 m \in groups[i].nodeIds /\ m \notin Range(nodes)})

FallbackPlacements == Cardinality({n \in Range(nodes) : via[n] = "fallback"})

\* C14: when the first layout is complete every recovered condition (a link with an
\* unknown end, a member id that matches no node, a ring search that fell back) has
\* been reported by a warning.
C14_RecoveredConditionsWarned ==
  pc = "laid" => warnings = UnknownEndLinks + StrayMemberIds + FallbackPlacements

\* ------------------------------------------------------------ C15
\* no member id of the group is the id of a node
NoMemberNode(group) == \A n \in Range(nodes) : n \notin group.nodeIds

\* C15: with zero nodes the layout has placed nothing (no occupied cell, no placed
\* node, no group bounds); once update has returned, a group none of whose member
\* ids matches a node has no center and still holds the mesh createWireframes gave
\* it, so update has built no boundary for it.
C15_EmptyInputsGiveEmptyResults ==
  /\ (pc \in {"laid", "relaid", "update", "built"} /\ Len(nodes) = 0) =>
       /\ occupiedPositions = {}
       /\ placedNodes = {}
       /\ groupBounds = <<>>
       /\ DOMAIN pos = {}
  /\ pc = "built" =>
       \A i \in 1..Len(groupWireframes) :
         NoMemberNode(groupWireframes[i].group) =>
           /\ groupWireframes[i].group.id \notin DOMAIN center
           /\ groupWireframes[i].mesh = i
           /\ i \in scene

C15_Witness ==
  /\ pc = "built"
  /\ Len(nodes) = 0
  /\ Len(groupWireframes) = 1
  /\ GhostId \in groupWireframes[1].group.nodeIds

\* ------------------------------------------------------------ C16
\* the group update is working on, and the voxel of a world position computed from
\* the rounding rule: round(coordinate / (2 * padding)), a tie going up
CurrentGroup == groupWireframes[wIdx].group

VoxelAt(w) ==
  <<(2 * w.x + 2 * padding) \div (4 * padding),
    (2 * w.y + 2 * padding) \div (4 * padding),
    (2 * w.z + 2 * padding) \div (4 * padding)>>

\* the voxels are marked and the corridors are being or have been carved
Carving == pc = "update" /\ wpc \in {"connect", "culled", "merged"}

\* C16: while and after the corridors of a group are carved, the voxel of every
\* member node that has a position is occupied, and a carving step keeps every key
\* of voxelMap at its place (it appends, never removes or replaces).
C16_NodeVoxelsStayOccupied ==
  /\ [](Carving =>
         \A n \in Range(nodes) :
           (n \in CurrentGroup.nodeIds /\ world[n].k = "num") =>
             VoxelAt(world[n]) \in Range(voxelMap))
  /\ [][(pc = "update" /\ wpc = "connect") =>
          (Len(voxelMap') >= Len(voxelMap)
             /\ SubSeq(voxelMap', 1, Len(voxelMap)) = voxelMap)]_vars

C16_Witness ==
  /\ pc = "update"
  /\ wpc = "culled"
  /\ Len(nodeVoxels) >= 2
  /\ Len(voxelMap) > Len(nodeVoxels)
  /\ \E n \in Range(nodes) :
       n \in CurrentGroup.nodeIds /\ world[n].x % (2 * padding) = padding

\* ------------------------------------------------------------ C17
\* the indices (in declaration order) of the groups that list node n
Listing(n) == {i \in 1..Len(groups) : n \in groups[i].nodeIds}

\* the id of the first group in declaration order that lists n
FirstListing(n) == groups[CHOOSE i \in Listing(n) : \A j \in Listing(n) : i <= j].id

\* the entries of sortedGroups that hold node n
EntriesOf(n) == {i \in 1..Len(sortedGroups) : n \in Range(sortedGroups[i].nodes)}

\* the placed nodes whose first listing group is g
PlacedOf(g) == {n \in Positioned : Listing(n) # {} /\ FirstListing(n) = g}

\* C17: during and after a layout of at least one node, a node that some group
\* lists is held by exactly one entry of the placement order, the entry of the
\* first group in declaration order that lists it, and by no ungrouped list; a node
\* that no group lists is in the ungrouped list and in no entry; the bounds of a
\* group are the bounding box of the placed nodes whose first listing group it is;
\* a node placed by the neighbour scan of its group touches a member of that group.
C17_FirstListingGroupPlaces ==
  (Placing /\ Len(nodes) > 0) =>
    /\ \A n \in Range(nodes) :
         IF Listing(n) # {}
         THEN /\ Cardinality(EntriesOf(n)) = 1
              /\ \A i \in EntriesOf(n) : sortedGroups[i].id = FirstListing(n)
              /\ n \notin Range(ungroupedNodes)
         ELSE /\ EntriesOf(n) = {}
              /\ n \in Range(ungroupedNodes)
    /\ \A g \in DOMAIN groupBounds :
         /\ PlacedOf(g) # {}
         /\ \A n \in PlacedOf(g) : Within(pos[n], groupBounds[g])
         /\ \E n \in PlacedOf(g) : pos[n].x = groupBounds[g].minX
         /\ \E n \in PlacedOf(g) : pos[n].x = groupBounds[g].maxX
         /\ \E n \in PlacedOf(g) : pos[n].y = groupBounds[g].minY
         /\ \E n \in PlacedOf(g) : pos[n].y = groupBounds[g].maxY
    /\ \A n \in Positioned :
         (Listing(n) # {} /\ via[n] = "neighbor") =>
           \E m \in PlacedOf(FirstListing(n)) \ {n} :
             Abs(pos[m].x - pos[n].x) <= 1 /\ Abs(pos[m].y - pos[n].y) <= 1

C17_Witness ==
  /\ pc = "laid"
  /\ Len(sortedGroups) = 2
  /\ \E n \in Positioned :
       /\ Cardinality(Listing(n)) = 2
       /\ via[n] = "neighbor"
       /\ \E m \in Positioned : Listing(m) = {2}

\* ------------------------------------------------------------ C19
\* the total degree of the nodes filed under group g: the ends of retained links
\* at nodes whose first listing group is g
TotalDegree(g) ==
  Cardinality({i \in 1..Len(links) :
                 Listing(links[i].source) # {} /\ FirstListing(links[i].source) = g})
    + Cardinality({i \in 1..Len(links) :
                     Listing(links[i].target) # {} /\ FirstListing(links[i].target) = g})

\* the place in the group list of the group with id g
DeclaredAt(g) == CHOOSE i \in 1..Len(groups) : groups[i].id = g

\* the place in the node list of the first node filed under g
FirstNodeAt(g) ==
  CHOOSE i \in 1..Len(nodes) :
    /\ Listing(nodes[i]) # {} /\ FirstListing(nodes[i]) = g
    /\ \A j \in 1..(i - 1) : Listing(nodes[j]) = {} \/ FirstListing(nodes[j]) # g

\* C19 as stated: groups are placed by descending total degree, and groups of equal
\* total degree in the order of the group list.
C19_TiesInGroupListOrder ==
  (Placing /\ Len(nodes) > 0) =>
    \A i \in 1..Len(sortedGroups) : \A j \in (i + 1)..Len(sortedGroups) :
      \/ TotalDegree(sortedGroups[i].id) > TotalDegree(sortedGroups[j].id)
      \/ /\ TotalDegree(sortedGroups[i].id) = TotalDegree(sortedGroups[j].id)
         /\ DeclaredAt(sortedGroups[i].id) < DeclaredAt(sortedGroups[j].id)

\* C19 (amended): the groups that are the first listing group of some node are
\* placed by descending total degree of the nodes filed under them, and groups of
\* equal total in the order in which the node list first reaches a node of theirs.
C19_TiesInFirstNodeOrder ==
  (Placing /\ Len(nodes) > 0) =>
    /\ {sortedGroups[i].id : i \in 1..Len(sortedGroups)}
         = {FirstListing(n) : n \in {m \in Range(nodes) : Listing(m) # {}}}
    /\ \A i \in 1..Len(sortedGroups) : \A j \in (i + 1)..Len(sortedGroups) :
         \/ TotalDegree(sortedGroups[i].id) > TotalDegree(sortedGroups[j].id)
         \/ /\ TotalDegree(sortedGroups[i].id) = TotalDegree(sortedGroups[j].id)
            /\ FirstNodeAt(sortedGroups[i].id) < FirstNodeAt(sortedGroups[j].id)

C19_Witness ==
  /\ pc = "laid"
  /\ Len(sortedGroups) = 2
  /\ TotalDegree(sortedGroups[1].id) = TotalDegree(sortedGroups[2].id)
  /\ DeclaredAt(sortedGroups[1].id) > DeclaredAt(sortedGroups[2].id)
  /\ pos[sortedGroups[1].nodes[1]] = Cell(0, 0)

\* ------------------------------------------------------------ C20
\* the ring of a cell around the origin, and the order in which the scan reaches
\* two cells: by ring, then by x, then by y
RingOf(p) == Max(Abs(p.x), Abs(p.y))

ScannedBefore(q, p) ==
  \/ RingOf(q) < RingOf(p)
  \/ /\ RingOf(q) = RingOf(p)
     /\ (q.x < p.x \/ (q.x = p.x /\ q.y < p.y))

\* the nodes of the groups placed before the i-th
EarlierNodes(i) == UNION {Range(sortedGroups[h].nodes) : h \in 1..(i - 1)}

\* cell p was free for the first member of the i-th group: no node of an earlier
\* group on it, and outside the buffered bounds of every earlier group (later groups
\* have no bounds yet when the i-th starts)
FreeFor(i, p) ==
  /\ \A n \in EarlierNodes(i) : pos[n] # p
  /\ \A h \in 1..(i - 1) : ~Within(p, Buffered(groupBounds[sortedGroups[h].id]))

\* the first member of the i-th group lies on the first free cell of the scan
OnFirstFreeCell(i) ==
  LET p == pos[sortedGroups[i].nodes[1]]
  IN /\ p.k = "cell"
     /\ FreeFor(i, p)
     /\ \A x \in (-RingOf(p))..RingOf(p) : \A y \in (-RingOf(p))..RingOf(p) :
          ScannedBefore(Cell(x, y), p) => ~FreeFor(i, Cell(x, y))

LayoutDone == pc \in {"laid", "relaid"} /\ Len(nodes) > 0

ConnectedTo(n) ==
  {m \in Range(nodes) :
     \E i \in 1..Len(links) :
       \/ links[i].source = n /\ links[i].target = m
       \/ links[i].target = n /\ links[i].source = m}

\* the members of the group at index i of this.groups that are nodes of the graph
ExistingMembers(i) == groups[i].nodeIds \cap Range(nodes)

\* what a node answers to: its name, or its id when it has none
Called(n) == IF nodeName[n] = NoName THEN n ELSE nodeName[n]

\* the event describes the selection: the title is the name or id of the selected
\* object and the links name each connected node, or each existing member, once
Describes(ev, sel) ==
  IF sel.kind = "node"
  THEN /\ ev.title = Called(sel.at)
       /\ Range(ev.links) = {Called(m) : m \in ConnectedTo(sel.at)}
       /\ Len(ev.links) = Cardinality(ConnectedTo(sel.at))
  ELSE /\ ev.title = (IF groupName[sel.at] = NoName THEN groups[sel.at].id
                                                      ELSE groupName[sel.at])
       /\ Range(ev.links) = {Called(m) : m \in ExistingMembers(sel.at)}
       /\ Len(ev.links) = Cardinality(ExistingMembers(sel.at))

\* C18: a step that makes a node or a group the current selection fires exactly
\* one 'metadata-shown' event, whose title is the name (or id) of the object and
\* whose links are the names (or ids) of the nodes linked to the node, or of the
\* existing members of the group; a step that leaves nothing selected fires none,
\* and an event that is fired always describes the selection it leaves.
C18_SelectionShowsItsMetadata ==
  [][ /\ (selectedObject' # selectedObject /\ selectedObject'.kind # "none")
          => (Len(shown') = 1 /\ Describes(shown'[1], selectedObject'))
      /\ (selectedObject'.kind = "none") => (shown' = <<>>)
      /\ (shown' # <<>>)
          => (Len(shown') = 1 /\ Describes(shown'[1], selectedObject')) ]_vars

\* a named node with two linked nodes is selected, and the event lists one of
\* them by its name and the other by its id
C18_Witness ==
  /\ selectedObject.kind = "node"
  /\ Len(shown) = 1
  /\ shown[1].title = nodeName[selectedObject.at]
  /\ nodeName[selectedObject.at] # NoName
  /\ Len(shown[1].links) = 2
  /\ \E i, j \in 1..2 :
       /\ shown[1].links[i] \in Range(nodes)
       /\ shown[1].links[j] \notin Range(nodes)
       /\ \E l \in Range(links) : l.target = selectedObject.at

\* a group with a member that is no node of the graph is selected
C18_GroupWitness ==
  /\ selectedObject.kind = "group"
  /\ Len(shown) = 1
  /\ GhostId \in groups[selectedObject.at].nodeIds
  /\ Len(shown[1].links) = 2

\* ---------------------------------------------------------------- C21
\* the step that places the next node no group lists
PlacingUngrouped ==
  /\ pc = "place"
  /\ gIdx > Len(sortedGroups)
  /\ uIdx <= Len(ungroupedNodes)

\* the placed nodes a link joins to node n, with a grid cell of their own
PlacedNeighbours(n) ==
  {m \in placedNodes :
     /\ pos[m].k = "cell"
     /\ \E i \in 1..Len(links) :
          \/ links[i].source = n /\ links[i].target = m
          \/ links[i].target = n /\ links[i].source = m}

\* cell p is one of the 8 cells around cell q
Beside(p, q) ==
  /\ p.k = "cell" /\ q.k = "cell" /\ p # q
  /\ Abs(p.x - q.x) <= 1 /\ Abs(p.y - q.y) <= 1

\* no node is on cell p and p is outside every group's buffered bounds
OpenCell(p) ==
  /\ \A m \in placedNodes : pos[m] # p
  /\ \A g \in DOMAIN groupBounds : ~Within(p, Buffered(groupBounds[g]))

\* node m has one of its 8 adjacent cells open
Offers(m) ==
  \E dx \in -1..1 : \E dy \in -1..1 :
    <<dx, dy>> # <<0, 0>> /\ OpenCell(Cell(pos[m].x + dx, pos[m].y + dy))

\* C21: a node no group lists that has placed graph neighbours is placed beside one
\* of them whenever one of them has an open adjacent cell; a ring search is used
\* only when none of them has one, and it is anchored at the origin only when
\* the node has no placed graph neighbour.
C21_BesideAnyOfferingNeighbour ==
  [][ PlacingUngrouped =>
        LET u == ungroupedNodes[uIdx]
        IN /\ (\E m \in PlacedNeighbours(u) : Offers(m))
                => (\E m \in PlacedNeighbours(u) : Beside(pos'[u], pos[m]))
           /\ (via'[u] \in {"ring", "centre"})
                => ~(\E m \in PlacedNeighbours(u) : Offers(m))
           /\ (via'[u] = "centre") => (PlacedNeighbours(u) = {}) ]_vars

\* ---------------------------------------------------------------- C22
\* the step that places a member of a group after the group's first
PlacingMember ==
  /\ pc = "place"
  /\ gIdx <= Len(sortedGroups)
  /\ mIdx > 1

\* the priority order of the offsets: +x, -x, +y, -y, +x+y, -x+y, +x-y, -x-y
OffsetOrder == << <<1, 0>>, <<-1, 0>>, <<0, 1>>, <<0, -1>>,
                  <<1, 1>>, <<-1, 1>>, <<1, -1>>, <<-1, -1>> >>

\* the cell at the k-th offset from the j-th member of the group being placed
MemberCell(j, k) ==
  Cell(pos[sortedGroups[gIdx].nodes[j]].x + OffsetOrder[k][1],
       pos[sortedGroups[gIdx].nodes[j]].y + OffsetOrder[k][2])

\* no node is on cell p and p is outside the buffered bounds of every other group
AdmissibleFor(g, p) ==
  /\ \A m \in placedNodes : pos[m] # p
  /\ \A h \in DOMAIN groupBounds : h # g => ~Within(p, Buffered(groupBounds[h]))

\* the candidates (member, offset) of the member being placed that are admissible
Candidates ==
  {c \in (1..(mIdx - 1)) \X (1..8) :
     AdmissibleFor(sortedGroups[gIdx].id, MemberCell(c[1], c[2]))}

\* candidate c comes no later than candidate d
NoLater(c, d) == c[1] < d[1] \/ (c[1] = d[1] /\ c[2] <= d[2])

\* the admissible cells on the ring of radius r around the group's first member
OnRing(r) ==
  LET first == pos[sortedGroups[gIdx].nodes[1]]
  IN {p \in {Cell(first.x + dx, first.y + dy) : dx \in -r..r, dy \in -r..r} :
        /\ Max(Abs(p.x - first.x), Abs(p.y - first.y)) = r
        /\ AdmissibleFor(sortedGroups[gIdx].id, p)}

\* C22: a member after the first is placed at the first admissible cell in the
\* order (earlier member in placement order, then offset in priority order); only
\* when no such cell exists is it placed by the ring search around the group's
\* first member, on the nearest ring that has an admissible cell; and only when
\* that search finds none is it placed by the unconstrained fallback.
C22_MemberOnFirstAdmissibleCell ==
  [][ PlacingMember =>
        LET u == sortedGroups[gIdx].nodes[mIdx]
        IN /\ via'[u] \in {"neighbor", "ring", "fallback"}
           /\ (Candidates # {}) =>
                /\ via'[u] = "neighbor"
                /\ \E c \in Candidates :
                     /\ \A d \in Candidates : NoLater(c, d)
                     /\ pos'[u] = MemberCell(c[1], c[2])
           /\ (via'[u] = "neighbor") => (Candidates # {})
           /\ (via'[u] = "ring") =>
                \E r \in 1..(MemberRingLimit - 1) :
                  /\ pos'[u] \in OnRing(r)
                  /\ \A q \in 1..(r - 1) : OnRing(q) = {}
           /\ (via'[u] = "fallback") =>
                \A r \in 1..(MemberRingLimit - 1) : OnRing(r) = {} ]_vars

\* a member has been placed beside a later member because no cell beside the first
\* was admissible, and the layout is over
C22_Witness ==
  /\ pc = "laid"
  /\ \E g \in 1..Len(sortedGroups) : \E i \in 2..Len(sortedGroups[g].nodes) :
       LET u == sortedGroups[g].nodes[i]
       IN /\ via[u] = "neighbor"
          /\ ~Beside(pos[u], pos[sortedGroups[g].nodes[1]])

\* ---------------------------------------------------------------- C23
\* the number of link ends at node n
DegreeOf(n) ==
  Cardinality({i \in 1..Len(links) : links[i].source = n})
    + Cardinality({i \in 1..Len(links) : links[i].target = n})

\* the place of node n in the input
InputAt(n) == CHOOSE i \in 1..Len(nodes) : nodes[i] = n

\* node n comes before every other node of S: by higher degree, and among nodes of
\* equal degree by earlier place in the input
LeadsIn(n, S) ==
  /\ n \in S
  /\ \A m \in S \ {n} :
       \/ DegreeOf(n) > DegreeOf(m)
       \/ DegreeOf(n) = DegreeOf(m) /\ InputAt(n) < InputAt(m)

\* the nodes some group lists, and the nodes filed under group g
GroupedNodes == {n \in Range(nodes) : Listing(n) # {}}
FiledUnder(g) == {n \in GroupedNodes : FirstListing(n) = g}

\* C23: after the layout of a graph with at least one node, cell (0,0) holds a
\* node: when some node has a group, the leading member (highest degree, ties to
\* the earliest in input) of a group of highest total degree, whose bounds then
\* contain (0,0); otherwise the leading node of all.
C23_OriginHoldsLeadingNode ==
  LayoutDone =>
    \E n \in Range(nodes) :
      /\ pos[n] = Cell(0, 0)
      /\ IF GroupedNodes # {}
         THEN /\ n \in GroupedNodes
              /\ LeadsIn(n, FiledUnder(FirstListing(n)))
              /\ \A m \in GroupedNodes :
                   TotalDegree(FirstListing(n)) >= TotalDegree(FirstListing(m))
              /\ FirstListing(n) \in DOMAIN groupBounds
              /\ Within(Cell(0, 0), groupBounds[FirstListing(n)])
         ELSE LeadsIn(n, Range(nodes))

\* the layout is over and the node on (0,0) is a group member that is not the
\* first of its group in the input
C23_Witness ==
  /\ pc = "laid"
  /\ \E n \in GroupedNodes :
       /\ pos[n] = Cell(0, 0)
       /\ \E m \in FiledUnder(FirstListing(n)) : InputAt(m) < InputAt(n)
       /\ \E g \in DOMAIN groupBounds : g # FirstListing(n)

\* ---------------------------------------------------------------- C24
\* the corridors of the current group are all carved
Carved ==
  /\ pc = "update"
  /\ \/ wpc \in {"culled", "merged"}
     \/ wpc = "connect" /\ cIdx > Len(nodeVoxels)

\* the member nodes of the current group that have a position, in member order
BoxMembers ==
  LET boxed(n) == n \in CurrentGroup.nodeIds /\ world[n].k = "num"
  IN SelectSeq(nodes, boxed)

\* the squared Euclidean distance of two voxels
Apart(a, b) ==
  (a[1] - b[1]) * (a[1] - b[1]) + (a[2] - b[2]) * (a[2] - b[2])
    + (a[3] - b[3]) * (a[3] - b[3])

\* the voxel of the i-th member, and the place of its nearest other member: the
\* least distance, and among members at that distance the earliest
MemberVoxel(i) == VoxelAt(world[BoxMembers[i]])

NearestOther(i) ==
  CHOOSE j \in (1..Len(BoxMembers)) \ {i} :
    \A h \in (1..Len(BoxMembers)) \ {i} :
      \/ Apart(MemberVoxel(i), MemberVoxel(j)) < Apart(MemberVoxel(i), MemberVoxel(h))
      \/ Apart(MemberVoxel(i), MemberVoxel(j)) = Apart(MemberVoxel(i), MemberVoxel(h)) /\ j <= h

\* the voxels of the path from a to b that runs along x, then along y, then along z
XyzPath(a, b) ==
  {<<x, a[2], a[3]>> : x \in Min(a[1], b[1])..Max(a[1], b[1])}
    \cup {<<b[1], y, a[3]>> : y \in Min(a[2], b[2])..Max(a[2], b[2])}
    \cup {<<b[1], b[2], z>> : z \in Min(a[3], b[3])..Max(a[3], b[3])}

\* C24: once the corridors of a group with at least two positioned member nodes
\* are carved, every voxel of the path that runs from a node voxel along x, then y,
\* then z to its nearest other node voxel (ties to the earliest in member order) is
\* occupied, and that path is face-connected: every node voxel is joined to at
\* least one other node voxel.
C24_CorridorToNearestNodeVoxel ==
  (Carved /\ Len(BoxMembers) >= 2) =>
    \A i \in 1..Len(BoxMembers) :
      LET near == MemberVoxel(NearestOther(i))
          path == XyzPath(MemberVoxel(i), near)
      IN /\ path \subseteq Occupied
         /\ MemberVoxel(i) \in path /\ near \in path
         /\ Connected(path)

\* three node voxels, the nearest of one of them off its row, column and layer,
\* after the carving
C24_Witness ==
  /\ Carved
  /\ Len(BoxMembers) = 3
  /\ \E i \in 1..3 :
       LET a == MemberVoxel(i)
           b == MemberVoxel(NearestOther(i))
       IN a[1] # b[1] /\ a[2] # b[2] /\ a[3] # b[3]

\* ---------------------------------------------------------------- C25
\* point p comes before point q: by x, then by y, then by z
LexBefore(p, q) ==
  \/ p[1] < q[1]
  \/ p[1] = q[1] /\ p[2] < q[2]
  \/ p[1] = q[1] /\ p[2] = q[2] /\ p[3] < q[3]

\* the first and the second endpoint of the edge stored under key k
FirstEnd(k) == <<parseFloat(k[1]), parseFloat(k[2]), parseFloat(k[3])>>
SecondEnd(k) == <<parseFloat(k[4]), parseFloat(k[5]), parseFloat(k[6])>>

\* C25: the emitted edge set holds no edge twice, in either direction: every
\* stored edge has its lexicographically smaller endpoint (x, then y, then z)
\* first, and no two entries have the same two endpoints: there are as many
\* pairs of endpoints as entries.
C25_EdgesStoredOnceSmallerFirst ==
  Culled =>
    /\ \A i \in 1..Len(edgeSet) : LexBefore(FirstEnd(edgeSet[i]), SecondEnd(edgeSet[i]))
    /\ Cardinality({{FirstEnd(edgeSet[i]), SecondEnd(edgeSet[i])} : i \in 1..Len(edgeSet)})
         = Len(edgeSet)

\* after the culling of at least two voxels, a voxel has two exposed faces that
\* share an edge, and an edge is on the rim of exposed faces of two voxels
C25_Witness ==
  /\ Culled
  /\ Len(voxelMap) >= 2
  /\ \E v \in Occupied : \E d \in ExposedDirs(v) : \E e \in ExposedDirs(v) :
       d # e /\ FaceRim(v, d) \cap FaceRim(v, e) # {}
  /\ \E v \in Occupied : \E w \in Occupied \ {v} :
       \E d \in ExposedDirs(v) : \E e \in ExposedDirs(w) :
         FaceRim(v, d) \cap FaceRim(w, e) # {}

\* ---------------------------------------------------------------- C26
\* update is not in the middle of the iteration of a group
BetweenGroups == pc = "built" \/ (pc = "update" /\ wpc = "start")

\* the meshes getWireframes() refers to
Referred == {groupWireframes[i].mesh : i \in 1..Len(groupWireframes)}

\* C26: after createWireframes and any number of update calls the scene holds
\* exactly one wireframe mesh per group, the one getWireframes() refers to; and the
\* step that stores the mesh of a group puts a mesh never used before into the
\* scene in place of the mesh the group had, which is no longer in the scene, and
\* leaves the meshes of the other groups alone.
C26_OneCurrentMeshPerGroup ==
  /\ [](BetweenGroups =>
          /\ Len(groupWireframes) = Len(groups)
          /\ \A i \in 1..Len(groups) : groupWireframes[i].group = groups[i]
          /\ scene = Referred
          /\ Cardinality(scene) = Len(groups))
  /\ [][(pc = "update" /\ wpc = "merged") =>
          LET old == groupWireframes[wIdx].mesh
              new == groupWireframes'[wIdx].mesh
          IN /\ new \notin 1..meshCount
             /\ old \notin scene'
             /\ new \in scene'
             /\ \A i \in (1..Len(groupWireframes)) \ {wIdx} :
                  groupWireframes'[i] = groupWireframes[i]
             /\ groupWireframes'[wIdx].group = groupWireframes[wIdx].group]_vars

\* update has returned for the third time: the group with nodes has its fourth
\* mesh, the group without nodes still its first
C26_Witness ==
  /\ pc = "built"
  /\ Len(nodes) = 1
  /\ meshCount = 6
  /\ scene = {5, 6}

\* ---------------------------------------------------------------- C27
\* C27: after any sequence of selection changes the objects that carry the
\* highlight are the current selection and nothing else: no object when nothing
\* is selected, and every object selected before has its original colour back.
C27_OnlySelectionHighlighted ==
  highlighted = (IF selectedObject = NoSelection THEN {} ELSE {selectedObject})

\* a group is selected after a node was, and a node has the id of the group
C27_Witness ==
  /\ selectedObject.kind = "group"
  /\ groups[selectedObject.at].id \in Range(nodes)
  /\ highlighted = {selectedObject}
  /\ Len(shown) = 1

\* ---------------------------------------------------------------- C28
\* what a click that is no drag leaves selected when it is on t: nothing when t is
\* the selected object or nothing that can be selected, else t
ToggledTo(t) == IF t = NoSelection \/ t = selectedObject THEN NoSelection ELSE t

\* C28: a click that is no drag toggles the selection: on the selected node or
\* group it leaves nothing selected, on any other node (its mesh or its label) or
\* group wireframe it leaves that object selected, and on empty space or an
\* object that cannot be selected it leaves nothing selected.
C28_ClickTogglesSelection ==
  [][ /\ \A t \in CanvasTargets :
           (ClickCanvasAt(t) /\ ~isDragging) => selectedObject' = ToggledTo(t)
      /\ \A n \in Range(nodes) :
           ClickLabelAt(n) => selectedObject' = ToggledTo(NodeSelection(n)) ]_vars

\* the same for the clicks on nodes and on nothing only
C28_NodeClicksToggle ==
  [][ /\ \A t \in CanvasTargets :
           (ClickCanvasAt(t) /\ ~isDragging /\ t.kind # "group")
             => selectedObject' = ToggledTo(t)
      /\ \A n \in Range(nodes) :
           ClickLabelAt(n) => selectedObject' = ToggledTo(NodeSelection(n)) ]_vars

\* ---------------------------------------------------------------- C29
\* the step leaves selection, highlight and scene as they were and fires no event
Ignored ==
  /\ UNCHANGED <<selectedObject, highlighted, sceneVars>>
  /\ shown' = <<>>

\* the step has gone through handleSelection: the selection has changed, or the
\* scene has been asked anew to move for the selection that stays
Processed ==
  \/ selectedObject' # selectedObject
  \/ /\ offsetAnimation'.active
     /\ offsetAnimation'.startPos = graphPos
     /\ elapsed' = 0

\* C29: a click on the canvas is ignored (selection, highlight and metadata stay
\* as they are) when, since the latest mousedown, the pointer has been more than
\* 5 pixels away in x or in y from where that mousedown was, and the ignored
\* click clears the drag flag; a click after a mousedown without such a movement
\* is processed.
C29_ClickIgnoredExactlyAfterDrag ==
  [][ ClickCanvas =>
        /\ (pointer = "strayed") => (Ignored /\ ~isDragging')
        /\ (pointer = "down") => Processed ]_vars

\* a node is selected, the pointer was pressed at (5, 5) and has since been
\* reported more than 5 pixels away: the click that can follow is one to ignore
C29_Witness ==
  /\ pointer = "strayed"
  /\ isDragging
  /\ selectedObject.kind = "node"
  /\ mouseDownPos = Pixel(5, 5)
  /\ ENABLED ClickCanvas

\* ---------------------------------------------------------------- C30
\* the step is a selection of node n: it leaves n selected and has fired its event
SelectsNode(n) == selectedObject' = NodeSelection(n) /\ shown' # <<>>

\* the step is a deselection: a click that is handled and leaves nothing selected
Deselects ==
  /\ selectedObject' = NoSelection
  /\ (ClickCanvas /\ ~isDragging) \/ ClickLabel

\* the step asks for the graph group to move to offset p from where it is
RequestsOffset(p) ==
  /\ offsetAnimation' = [active |-> TRUE, startPos |-> graphPos, endPos |-> p]
  /\ elapsed' = 0
  /\ graphPos' = graphPos

\* the step asks for an offset, whichever
Requests == \E n \in Range(nodes) \cup {GhostId} :
              IF n = GhostId THEN Deselects ELSE SelectsNode(n) /\ world[n].k = "num"

\* the offset the selection that stands has asked for, when it has asked for one
Requested ==
  IF selectedObject = NoSelection THEN Origin
  ELSE Point(-world[selectedObject.at].x, -world[selectedObject.at].y,
             -world[selectedObject.at].z)

\* C30: the graph group comes to rest at the offset asked for by the latest
\* selection of a node or deselection. Selecting a node that has a position
\* starts an animation from where the group is to the negated position of the
\* node, deselecting starts one to the origin, and either replaces the animation
\* in progress; no other step starts or changes an animation or moves the group,
\* except the frame, and the frame that ends the animation leaves the group on
\* the end position with offsetAnimation cleared; with no animation left the
\* group is on the offset of the selected node, or on the origin when nothing is
\* selected; and once no further offset is asked for, frames bring the animation
\* to its end.
C30_GraphComesToRest ==
  /\ [][ /\ \A n \in Range(nodes) :
              (SelectsNode(n) /\ world[n].k = "num")
                => RequestsOffset(Point(-world[n].x, -world[n].y, -world[n].z))
         /\ Deselects => RequestsOffset(Origin)
         /\ ~Requests =>
              \/ UNCHANGED <<offsetAnimation, graphPos>>
              \/ /\ animate
                 /\ offsetAnimation' \in {offsetAnimation, NoAnimation}
                 /\ (offsetAnimation' = NoAnimation) => (graphPos' = offsetAnimation.endPos)
       ]_vars
  /\ []( (/\ offsetAnimation = NoAnimation
          /\ \/ selectedObject = NoSelection
             \/ selectedObject.kind = "node" /\ world[selectedObject.at].k = "num")
          => graphPos = Requested )
  /\ (<>[][~Requests]_vars) => <>[](offsetAnimation = NoAnimation)

\* the second node was selected, then the group: no animation is left, the group
\* wireframe is the selection and the graph group rests on the offset of the node
C30_Witness ==
  /\ offsetAnimation = NoAnimation
  /\ selectedObject.kind = "group"
  /\ Len(nodes) = 2
  /\ graphPos = Point(-2 * nodeSpacing, 0, 0)
====
